---- MODULE Spec2Model ----
\* IntNetAdmin (src/netadmin/app.py): the staged configuration mutation engine.
\* Pending DHCP and DNS changes are staged in an in-memory log guarded by one
\* lock and later replayed against the configuration text by the apply
\* functions, which commit through a temp file and a privileged copy.
EXTENDS Integers, Sequences, FiniteSets, TLC

\* ---------------------------------------------------------------- bounds

\* Requests served in one behaviour; the threaded server runs each request in a
\* thread of its own, so a thread handles one request and is done.
NumRequests == 3

Procs == 1..NumRequests

NoProc == 0
None == "None"
\* A temp path holds no file (Absent) or one file with its text.
Absent == <<>>
File(text) == <<text>>
TextOf(file) == file[1]

Hostnames == {"nas", "web"}
Macs == {"aa:bb:cc:dd:ee:ff"}
Ips == {"10.0.0.5"}
\* (mac, ip) payloads of an edit request: either field may be missing.
EditPayloads == {<<"aa:bb:cc:dd:ee:ff", None>>, <<None, "10.0.0.5">>}

ZoneNames == {"example.com", "lan"}
RecordNames == {"web"}
RecordTypes == {"A"}
RecordValues == {"10.0.0.9"}
\* datetime.now() rendered as %Y%m%d%H at the moment of an apply.
NowSerials == {2026110514}

\* ------------------------------------------------------------ variables

VARIABLES
    pending_dhcp,      \* pending_changes['dhcp']
    pending_dns,       \* pending_changes['dns']
    lock,              \* holder of pending_changes_lock, or NoProc
    dhcp_conf,         \* text of CONFIG['dhcp_conf']: the host blocks in file order
    zone_files,        \* zone name -> text of db.<zone>: serial and record lines
    tmp,               \* temp path -> text, or Absent (/tmp/dhcpd.conf.<pid>, /tmp/db.<zone>.<pid>)
    pc,                \* position of each request thread (idle: request not yet received)
    arg,               \* the arguments of the thread's request
    has_dhcp,          \* api_apply_changes: local has_dhcp
    has_dns,           \* api_apply_changes: local has_dns
    content,           \* apply_*_changes: local content
    original_content,  \* apply_*_changes: local original_content
    changes,           \* apply_*_changes: local changes (the snapshot of the log)
    success,           \* apply_*_changes: local success (result of the privileged cp)
    todo,              \* apply_dns_changes: zones of zones_to_update not yet visited
    results,           \* apply_dns_changes: local results
    ret_dhcp,          \* api_apply_changes: results['dhcp'] status
    sudo_cmds,         \* privileged commands the thread's current request has issued
    at_call,           \* history: log and text at the entry of the running apply function
    service_conf,      \* the configuration the DHCP service last loaded
    observed,          \* api_get_changes, api_preview_changes: the body of the response
    conf_text,         \* text level: the characters of CONFIG['dhcp_conf']
    zone_text,         \* text level: the characters of one zone file db.<zone>
    text_op,           \* text level, history: the apply that produced the text
    session,           \* the Flask session of each request: 'user', 'sudo_password'
    spawned,           \* history: the child processes run_with_sudo has started
    clock,             \* the clock: position in Instants
    scan_in_progress,  \* global scan_in_progress
    scan_pc            \* position of each thread that runs scan_network

vars == <<pending_dhcp, pending_dns, lock, dhcp_conf, zone_files, tmp, pc, arg,
          has_dhcp, has_dns, content, original_content, changes, success,
          todo, results, ret_dhcp, sudo_cmds, at_call, service_conf, observed,
          conf_text, zone_text, text_op, session, spawned, clock, scan_in_progress,
          scan_pc>>

text_vars == <<conf_text, zone_text, text_op>>

\* The session of each request, the helper's children, the clock, the scanner.
side_vars == <<session, spawned, clock, scan_in_progress, scan_pc>>

shared == <<pending_dhcp, pending_dns, lock, dhcp_conf, zone_files, tmp>>
apply_locals == <<has_dhcp, has_dns, content, original_content, changes, success,
                  todo, results, ret_dhcp, sudo_cmds, at_call>>

\* ------------------------------------------------------ pure functions

Range(s) == {s[i] : i \in 1..Len(s)}

\* A pending DHCP change; delete carries data = {} (both fields None).
DhcpChange(action, hostname, mac, ip) ==
    [action |-> action, hostname |-> hostname, mac |-> mac, ip |-> ip]

\* A pending DNS change; delete carries no value.
DnsChange(action, zone, name, type, value) ==
    [action |-> action, zone |-> zone, name |-> name, type |-> type, value |-> value]

\* Mutant of WithoutHost: the filter is forgotten.
WithoutHostKeepsAll(log, hostname) == log

\* [c for c in pending_changes['dhcp'] if c.get('hostname') != hostname]
WithoutHost(log, hostname) == SelectSeq(log, LAMBDA c : c.hostname # hostname)

\* Mutant of AddStaged: add evicts the host's pending changes as edit and delete do.
AddStagedEvicting(log, change) == Append(WithoutHost(log, change.hostname), change)

\* add_dhcp_host: pending_changes['dhcp'].append({...})
AddStaged(log, change) == Append(log, change)

\* Mutant of DnsStaged: a change replaces the pending changes of the same record.
DnsStagedEvicting(log, change) ==
    Append(SelectSeq(log, LAMBDA c :
               ~(c.zone = change.zone /\ c.name = change.name /\ c.type = change.type)),
           change)

\* add/edit/delete_dns_record: pending_changes['dns'].append({...})
DnsStaged(log, change) == Append(log, change)

HostBlock(name, mac, ip) == [name |-> name, mac |-> mac, ip |-> ip]

HasBlock(text, hostname) == \E i \in 1..Len(text) : text[i].name = hostname

\* One iteration of the loop of apply_dhcp_changes over the snapshot.
ApplyDhcpChange(text, change) ==
    CASE change.action = "delete" ->
            SelectSeq(text, LAMBDA b : b.name # change.hostname)
      [] change.action = "edit" ->
            IF HasBlock(text, change.hostname)
            THEN [i \in 1..Len(text) |->
                     IF text[i].name = change.hostname
                     THEN HostBlock(change.hostname, change.mac, change.ip)
                     ELSE text[i]]
            ELSE text
      [] change.action = "add" ->
            Append(text, HostBlock(change.hostname, change.mac, change.ip))

RECURSIVE FoldDhcp(_, _)
FoldDhcp(text, chs) ==
    IF chs = <<>> THEN text
    ELSE FoldDhcp(ApplyDhcpChange(text, Head(chs)), Tail(chs))

RecordLine(name, type, value) == [name |-> name, type |-> type, value |-> value]

\* The delete pattern ^name\s+.*TYPE\s+.*$ asks only that TYPE be followed by
\* white space somewhere after the name: it also matches a line whose type
\* token ends in TYPE (A in AAAA).
TypeEndsWith(linetype, type) ==
    linetype = type \/ (type = "A" /\ linetype = "AAAA")

\* One iteration of the inner loop of apply_dns_changes over a zone's changes.
ApplyDnsChange(lines, change) ==
    CASE change.action = "delete" ->
            SelectSeq(lines, LAMBDA l :
                ~(l.name = change.name /\ TypeEndsWith(l.type, change.type)))
      [] change.action = "edit" ->
            [i \in 1..Len(lines) |->
                IF lines[i].name = change.name /\ lines[i].type = change.type
                THEN RecordLine(lines[i].name, lines[i].type, change.value)
                ELSE lines[i]]
      [] change.action = "add" ->
            Append(lines, RecordLine(change.name, change.type, change.value))

RECURSIVE FoldDns(_, _)
FoldDns(lines, chs) ==
    IF chs = <<>> THEN lines
    ELSE FoldDns(ApplyDnsChange(lines, Head(chs)), Tail(chs))

ZoneText(serial, lines) == [serial |-> serial, lines |-> lines]

\* zones_to_update: the zones of the snapshot, in order of first appearance.
RECURSIVE ZonesToUpdate(_)
ZonesToUpdate(chs) ==
    IF chs = <<>> THEN <<>>
    ELSE LET rest == ZonesToUpdate(SelectSeq(Tail(chs), LAMBDA c : c.zone # Head(chs).zone))
         IN  <<Head(chs).zone>> \o rest

ZoneChanges(chs, zone) == SelectSeq(chs, LAMBDA c : c.zone = zone)

AnyOk(res) == \E i \in 1..Len(res) : res[i].status = "ok"

\* ------------------------------------------- text level: pattern matching
\* The apply functions and the readers work on the characters of the files with
\* Python regular expressions. Here a text is a sequence of one-character
\* strings and a pattern is a sequence of items matched with re's priorities
\* (greedy repetition, leftmost match).

Space == {" ", "\t", "\n"}
Digit == {"0", "1", "2", "3", "4", "5", "6", "7", "8", "9"}
Alphabet == <<"a", "b", "c", "d", "e", "f", "g", "h", "i", "j", "k", "l", "m",
              "n", "o", "p", "q", "r", "s", "t", "u", "v", "w", "x", "y", "z">>
Capitals == <<"A", "B", "C", "D", "E", "F", "G", "H", "I", "J", "K", "L", "M",
              "N", "O", "P", "Q", "R", "S", "T", "U", "V", "W", "X", "Y", "Z">>
Lowercase == Range(Alphabet)
Uppercase == Range(Capitals)
\* \w
Word == Lowercase \cup Uppercase \cup Digit \cup {"_"}

\* A character class: the characters of set, or (neg) every other character.
OneOf(set) == [neg |-> FALSE, set |-> set]
NotIn(set) == [neg |-> TRUE, set |-> set]
InClass(c, cls) == (c \in cls.set) # cls.neg

\* Pattern items: one character of a class, cls*, cls+, a literal string,
\* (?:sub)?, ^ and $ under re.MULTILINE, and the boundary of a group.
One(cls) == <<[k |-> "one", cls |-> cls]>>
Star(cls) == <<[k |-> "star", cls |-> cls]>>
Plus(cls) == One(cls) \o Star(cls)
Lit(s) == <<[k |-> "lit", s |-> s]>>
Opt(sub) == <<[k |-> "opt", sub |-> sub]>>
Bol == <<[k |-> "bol"]>>
Eol == <<[k |-> "eol"]>>
Mark == <<[k |-> "mark"]>>

Max(S) == CHOOSE x \in S : \A y \in S : y <= x
Min(S) == CHOOSE x \in S : \A y \in S : x <= y

\* The end of the run of characters of cls that starts at position i.
RunEnd(text, i, cls) ==
    LET stops == {j \in i..Len(text) : ~InClass(text[j], cls)}
    IN  IF stops = {} THEN Len(text) + 1 ELSE Min(stops)

\* re's match of pat at position i: <<>> if there is none, else the positions
\* of the marks followed by the position after the match. A greedy repetition
\* takes the longest run with which the rest of the pattern still matches.
RECURSIVE Match(_, _, _)
Match(pat, text, i) ==
    IF pat = <<>> THEN <<i>>
    ELSE LET it == Head(pat)
             rest == Tail(pat)
         IN  CASE it.k = "lit" ->
                    IF /\ i + Len(it.s) - 1 <= Len(text)
                       /\ SubSeq(text, i, i + Len(it.s) - 1) = it.s
                    THEN Match(rest, text, i + Len(it.s)) ELSE <<>>
               [] it.k = "one" ->
                    IF i <= Len(text) /\ InClass(text[i], it.cls)
                    THEN Match(rest, text, i + 1) ELSE <<>>
               [] it.k = "star" ->
                    LET ends == {j \in i..RunEnd(text, i, it.cls) : Match(rest, text, j) # <<>>}
                    IN  IF ends = {} THEN <<>> ELSE Match(rest, text, Max(ends))
               [] it.k = "opt" ->
                    LET r == Match(it.sub \o rest, text, i)
                    IN  IF r # <<>> THEN r ELSE Match(rest, text, i)
               [] it.k = "bol" ->
                    IF i = 1 \/ text[i - 1] = "\n" THEN Match(rest, text, i) ELSE <<>>
               [] it.k = "eol" ->
                    IF i = Len(text) + 1 \/ text[i] = "\n" THEN Match(rest, text, i) ELSE <<>>
               [] it.k = "mark" ->
                    LET r == Match(rest, text, i)
                    IN  IF r = <<>> THEN <<>> ELSE <<i>> \o r

\* re.search from position from: <<start, marks..., end>> of the leftmost match.
Search(pat, text, from) ==
    LET starts == {i \in from..(Len(text) + 1) : Match(pat, text, i) # <<>>}
    IN  IF starts = {} THEN <<>> ELSE <<Min(starts)>> \o Match(pat, text, Min(starts))

\* re.finditer: the non-overlapping matches from left to right.
RECURSIVE FindAll(_, _, _)
FindAll(pat, text, from) ==
    LET m == Search(pat, text, from)
    IN  IF m = <<>> THEN <<>>
        ELSE <<m>> \o FindAll(pat, text, IF m[Len(m)] > m[1] THEN m[Len(m)] ELSE m[Len(m)] + 1)

\* re.sub: the text with match ms[k] replaced by reps[k], for every k from k on.
RECURSIVE Substitute(_, _, _, _, _)
Substitute(text, ms, reps, k, from) ==
    IF k > Len(ms) THEN SubSeq(text, from, Len(text))
    ELSE SubSeq(text, from, ms[k][1] - 1) \o reps[k]
            \o Substitute(text, ms, reps, k + 1, ms[k][Len(ms[k])])

\* str.rstrip(): the trailing white space removed.
RStrip(text) ==
    LET keep == {i \in 1..Len(text) : text[i] \notin Space}
    IN  IF keep = {} THEN <<>> ELSE SubSeq(text, 1, Max(keep))

\* str.rstrip(';')
RStripSemicolon(text) ==
    LET keep == {i \in 1..Len(text) : text[i] # ";"}
    IN  IF keep = {} THEN <<>> ELSE SubSeq(text, 1, Max(keep))

\* str.lower() of one character and of a text.
LowerChar(c) ==
    IF c \in Uppercase THEN Alphabet[CHOOSE i \in 1..Len(Capitals) : Capitals[i] = c] ELSE c

Lower(text) == [i \in 1..Len(text) |-> LowerChar(text[i])]

\* The characters of the model in code point order, for string comparison.
CodeOrder ==
    <<"-", ".", "0", "1", "2", "3", "4", "5", "6", "7", "8", "9", ":">> \o Capitals
        \o <<"_">> \o Alphabet

Code(c) == CHOOSE i \in 1..Len(CodeOrder) : CodeOrder[i] = c

\* s < t on Python strings.
StrLess(s, t) ==
    LET n == IF Len(s) < Len(t) THEN Len(s) ELSE Len(t)
        diff == {i \in 1..n : s[i] # t[i]}
    IN  IF diff = {} THEN Len(s) < Len(t)
        ELSE Code(s[Min(diff)]) < Code(t[Min(diff)])

\* sorted(items, key=lambda x: x['name'].lower()): a stable sort.
SortedByName(items) ==
    LET key(i) == Lower(items[i].name)
        before(i) == {j \in 1..Len(items) :
                         \/ StrLess(key(j), key(i))
                         \/ key(j) = key(i) /\ j < i}
    IN  [k \in 1..Len(items) |->
            items[CHOOSE i \in 1..Len(items) : Cardinality(before(i)) = k - 1]]

\* --------------------------------------------- text level: dhcpd.conf

\* Absent payload field: data.get('mac') is None or empty.
NoText == <<>>

host == <<"h", "o", "s", "t">>
hardware == <<"h", "a", "r", "d", "w", "a", "r", "e">>
ethernet == <<"e", "t", "h", "e", "r", "n", "e", "t">>
fixed_address == <<"f", "i", "x", "e", "d", "-", "a", "d", "d", "r", "e", "s", "s">>
Indent == <<" ", " ", " ", " ">>

\* Mutant of DhcpDeletePattern: the name is not delimited by the opening brace.
DhcpDeletePatternLoose(hostname) ==
    Lit(host) \o Plus(OneOf(Space)) \o Lit(hostname)
        \o Plus(NotIn({"}"})) \o Lit(<<"}">>) \o Star(OneOf(Space))

\* rf'host\s+{re.escape(hostname)}\s*\{{[^}}]+\}}\s*'
DhcpDeletePattern(hostname) ==
    Lit(host) \o Plus(OneOf(Space)) \o Lit(hostname) \o Star(OneOf(Space)) \o Lit(<<"{">>)
        \o Plus(NotIn({"}"})) \o Lit(<<"}">>) \o Star(OneOf(Space))

\* rf'(host\s+{re.escape(hostname)}\s*\{{)([^}}]+)(\}})': the marks are the end
\* of group 1 and the start of group 3.
DhcpEditPattern(hostname) ==
    Lit(host) \o Plus(OneOf(Space)) \o Lit(hostname) \o Star(OneOf(Space)) \o Lit(<<"{">>)
        \o Mark \o Plus(NotIn({"}"})) \o Mark \o Lit(<<"}">>)

\* action == 'delete': content = re.sub(pattern, '', content)
DhcpDeleteText(text, hostname) ==
    LET ms == FindAll(DhcpDeletePattern(hostname), text, 1)
    IN  Substitute(text, ms, [k \in 1..Len(ms) |-> <<>>], 1, 1)

\* Mutant of DhcpEditText: an edit of a host without a block creates the block.
DhcpEditTextUpsert(text, hostname, mac, ip) ==
    IF Search(DhcpEditPattern(hostname), text, 1) = <<>>
    THEN RStrip(text) \o <<"\n", "\n">> \o host \o <<" ">> \o hostname \o <<" ", "{">>
             \o (IF mac # NoText THEN <<" ">> \o hardware \o <<" ">> \o ethernet
                                          \o <<" ">> \o mac \o <<";">>
                 ELSE <<>>)
             \o (IF ip # NoText THEN <<" ">> \o fixed_address \o <<" ">> \o ip \o <<";">>
                 ELSE <<>>)
             \o <<" ", "}", "\n">>
    ELSE text

\* action == 'edit': the block found by re.search is rebuilt from its opening,
\* the payload's fields and its closing brace, and replaces every match.
DhcpEditText(text, hostname, mac, ip) ==
    LET m == Search(DhcpEditPattern(hostname), text, 1)
    IN  IF m = <<>> THEN text
        ELSE LET new_block ==
                     SubSeq(text, m[1], m[2] - 1)
                        \o (IF mac # NoText
                            THEN <<"\n">> \o Indent \o hardware \o <<" ">> \o ethernet
                                     \o <<" ">> \o mac \o <<";">>
                            ELSE <<>>)
                        \o (IF ip # NoText
                            THEN <<"\n">> \o Indent \o fixed_address \o <<" ">> \o ip \o <<";">>
                            ELSE <<>>)
                        \o <<"\n">> \o SubSeq(text, m[3], m[4] - 1)
                 ms == FindAll(DhcpEditPattern(hostname), text, 1)
             IN  Substitute(text, ms, [k \in 1..Len(ms) |-> new_block], 1, 1)

\* The entry of action == 'add' (lines 276-281).
DhcpEntry(hostname, mac, ip) ==
    <<"\n">> \o host \o <<" ">> \o hostname \o <<" ", "{", "\n">>
        \o Indent \o hardware \o <<" ">> \o ethernet \o <<" ">> \o mac \o <<";", "\n">>
        \o Indent \o fixed_address \o <<" ">> \o ip \o <<";", "\n">>
        \o <<"}", "\n">>

\* action == 'add': content = content.rstrip() + '\n' + entry
DhcpAddText(text, hostname, mac, ip) ==
    RStrip(text) \o <<"\n">> \o DhcpEntry(hostname, mac, ip)

\* One iteration of the loop of apply_dhcp_changes, on the characters.
ApplyDhcpChangeText(text, change) ==
    CASE change.action = "delete" -> DhcpDeleteText(text, change.hostname)
      [] change.action = "edit" ->
            DhcpEditText(text, change.hostname, change.mac, change.ip)
      [] change.action = "add" ->
            DhcpAddText(text, change.hostname, change.mac, change.ip)

RECURSIVE FoldDhcpText(_, _)
FoldDhcpText(text, chs) ==
    IF chs = <<>> THEN text
    ELSE FoldDhcpText(ApplyDhcpChangeText(text, Head(chs)), Tail(chs))

\* r'host\s+(\S+)\s*\{([^}]+)\}': the marks bound groups 1 and 2.
HostPattern ==
    Lit(host) \o Plus(OneOf(Space)) \o Mark \o Plus(NotIn(Space)) \o Mark
        \o Star(OneOf(Space)) \o Lit(<<"{">>) \o Mark \o Plus(NotIn({"}"})) \o Mark
        \o Lit(<<"}">>)

\* r'hardware\s+ethernet\s+([\w:]+)'
MacPattern ==
    Lit(hardware) \o Plus(OneOf(Space)) \o Lit(ethernet) \o Plus(OneOf(Space))
        \o Mark \o Plus(OneOf(Word \cup {":"}))

\* r'fixed-address\s+(\S+)'
AddressPattern ==
    Lit(fixed_address) \o Plus(OneOf(Space)) \o Mark \o Plus(NotIn(Space))

HostRecord(name, mac, address) == [name |-> name, mac |-> mac, address |-> address]

\* The hosts of parse_dhcp_config: a block without a hardware ethernet line is
\* dropped, a block without a fixed-address has address None (here NoText).
parse_dhcp_config(text) ==
    LET ms == FindAll(HostPattern, text, 1)
        block(k) == SubSeq(text, ms[k][4], ms[k][5] - 1)
        mac_match(k) == Search(MacPattern, block(k), 1)
        ip_match(k) == Search(AddressPattern, block(k), 1)
        found == SelectSeq([k \in 1..Len(ms) |-> k], LAMBDA k : mac_match(k) # <<>>)
        record(k) ==
            HostRecord(SubSeq(text, ms[k][2], ms[k][3] - 1),
                       Lower(SubSeq(block(k), mac_match(k)[2], mac_match(k)[3] - 1)),
                       IF ip_match(k) # <<>>
                       THEN RStripSemicolon(SubSeq(block(k), ip_match(k)[2], ip_match(k)[3] - 1))
                       ELSE NoText)
    IN  SortedByName([n \in 1..Len(found) |-> record(found[n])])

\* ----------------------------------------------- text level: zone files

\* rf'^{re.escape(record["name"])}\s+.*{record["type"]}\s+.*$'
DnsDeletePattern(name, type) ==
    Bol \o Lit(name) \o Plus(OneOf(Space)) \o Star(NotIn({"\n"})) \o Lit(type)
        \o Plus(OneOf(Space)) \o Star(NotIn({"\n"})) \o Eol

\* (?:\d+\s+)?(?:IN\s+)?: the optional TTL and class of a record line.
TtlAndClass ==
    Opt(Plus(OneOf(Digit)) \o Plus(OneOf(Space)))
        \o Opt(Lit(<<"I", "N">>) \o Plus(OneOf(Space)))

\* rf'^({re.escape(record["name"])}\s+(?:\d+\s+)?(?:IN\s+)?{record["type"]}\s+).*$':
\* the mark is the end of group 1.
DnsEditPattern(name, type) ==
    Bol \o Lit(name) \o Plus(OneOf(Space)) \o TtlAndClass \o Lit(type)
        \o Plus(OneOf(Space)) \o Mark \o Star(NotIn({"\n"})) \o Eol

\* action == 'delete': content = re.sub(pattern, '', content, flags=re.MULTILINE)
DnsDeleteText(text, name, type) ==
    LET ms == FindAll(DnsDeletePattern(name, type), text, 1)
    IN  Substitute(text, ms, [k \in 1..Len(ms) |-> <<>>], 1, 1)

\* action == 'edit': every match is replaced by its group 1 and the new value.
DnsEditText(text, name, type, value) ==
    LET ms == FindAll(DnsEditPattern(name, type), text, 1)
    IN  Substitute(text, ms,
                   [k \in 1..Len(ms) |-> SubSeq(text, ms[k][1], ms[k][2] - 1) \o value], 1, 1)

\* f'{record["name"]}\tIN\t{record["type"]}\t{record["value"]}\n'
DnsRecordLine(name, type, value) ==
    name \o <<"\t", "I", "N", "\t">> \o type \o <<"\t">> \o value \o <<"\n">>

\* action == 'add': content = content.rstrip() + '\n' + new_record
DnsAddText(text, name, type, value) ==
    RStrip(text) \o <<"\n">> \o DnsRecordLine(name, type, value)

\* One iteration of the inner loop of apply_dns_changes, on the characters.
ApplyDnsChangeText(text, change) ==
    CASE change.action = "delete" -> DnsDeleteText(text, change.name, change.type)
      [] change.action = "edit" ->
            DnsEditText(text, change.name, change.type, change.value)
      [] change.action = "add" ->
            DnsAddText(text, change.name, change.type, change.value)

\* Mutant of FoldDnsText: the changes are replayed from the last to the first.
RECURSIVE FoldDnsTextReversed(_, _)
FoldDnsTextReversed(text, chs) ==
    IF chs = <<>> THEN text
    ELSE ApplyDnsChangeText(FoldDnsTextReversed(text, Tail(chs)), Head(chs))

RECURSIVE FoldDnsText(_, _)
FoldDnsText(text, chs) ==
    IF chs = <<>> THEN text
    ELSE FoldDnsText(ApplyDnsChangeText(text, Head(chs)), Tail(chs))

DigitChars == <<"0", "1", "2", "3", "4", "5", "6", "7", "8", "9">>

RECURSIVE Power10(_)
Power10(n) == IF n = 0 THEN 1 ELSE 10 * Power10(n - 1)

\* strftime('%Y%m%d%H'): the ten digits of the serial number.
SerialText(serial) == [i \in 1..10 |-> DigitChars[((serial \div Power10(10 - i)) % 10) + 1]]

Serial == <<"S", "e", "r", "i", "a", "l">>

\* r'(\d{10})\s*;\s*Serial'
SerialPattern ==
    One(OneOf(Digit)) \o One(OneOf(Digit)) \o One(OneOf(Digit)) \o One(OneOf(Digit))
        \o One(OneOf(Digit)) \o One(OneOf(Digit)) \o One(OneOf(Digit)) \o One(OneOf(Digit))
        \o One(OneOf(Digit)) \o One(OneOf(Digit)) \o Mark
        \o Star(OneOf(Space)) \o Lit(<<";">>) \o Star(OneOf(Space)) \o Lit(Serial)

\* content = re.sub(r'(\d{10})\s*;\s*Serial', f'{serial}  ; Serial', content)
UpdateSerial(text, serial) ==
    LET ms == FindAll(SerialPattern, text, 1)
    IN  Substitute(text, ms,
                   [k \in 1..Len(ms) |-> SerialText(serial) \o <<" ", " ", ";", " ">> \o Serial],
                   1, 1)

\* The serial tokens of a zone text: the ten digits before each '; Serial'.
SerialTokens(text) ==
    LET ms == FindAll(SerialPattern, text, 1)
    IN  [k \in 1..Len(ms) |-> SubSeq(text, ms[k][1], ms[k][2] - 1)]

\* r'^(\S+)\s+(?:\d+\s+)?(?:IN\s+)?A\s+([\d.]+)' and the like: the marks bound
\* group 1 and start group 2.
RecordPattern(type, valueclass) ==
    Bol \o Mark \o Plus(NotIn(Space)) \o Mark \o Plus(OneOf(Space)) \o TtlAndClass
        \o Lit(type) \o Plus(OneOf(Space)) \o Mark \o Plus(valueclass)

ZoneRecord(name, type, value) == [name |-> name, type |-> type, value |-> value]

RecordsOfType(text, type, valueclass) ==
    LET ms == FindAll(RecordPattern(type, valueclass), text, 1)
    IN  [k \in 1..Len(ms) |->
            ZoneRecord(SubSeq(text, ms[k][2], ms[k][3] - 1), type,
                       SubSeq(text, ms[k][4], ms[k][5] - 1))]

\* parse_zone_records, type by type: the A, AAAA, CNAME and NS records (the
\* PTR, MX and TXT records have patterns of their own and are not staged here).
parse_zone_records(text) ==
    RecordsOfType(text, <<"A">>, OneOf(Digit \cup {"."}))
        \o RecordsOfType(text, <<"A", "A", "A", "A">>, NotIn(Space))
        \o RecordsOfType(text, <<"C", "N", "A", "M", "E">>, NotIn(Space))
        \o RecordsOfType(text, <<"N", "S">>, NotIn(Space))

\* --------------------------------------------------------------- state

NoArg == [op |-> "none"]

InitConfs == {<<>>, <<HostBlock("nas", "aa:bb:cc:dd:ee:ff", "10.0.0.5")>>}

InitZone == ZoneText(2026110501, <<RecordLine("web", "A", "10.0.0.1")>>)

\* No response has been sent.
NoResponse == [route |-> "none"]

\* ------------------------------------------------ text level: the inputs

\* Longest change log staged at the text level.
MaxLog == 2

nas == <<"n", "a", "s">>
nas2 == <<"n", "a", "s", "2">>
mynas == <<"m", "y", "n", "a", "s">>
web == <<"w", "e", "b">>
web2 == <<"w", "e", "b", "2">>
mac_aa == <<"a", "a", ":", "b", "b", ":", "c", "c", ":", "d", "d", ":", "e", "e", ":", "f", "f">>
mac_11 == <<"1", "1", ":", "2", "2", ":", "3", "3", ":", "4", "4", ":", "5", "5", ":", "6", "6">>
ip_5 == <<"1", "0", ".", "0", ".", "0", ".", "5">>
ip_7 == <<"1", "0", ".", "0", ".", "0", ".", "7">>
ip_9 == <<"1", "0", ".", "0", ".", "0", ".", "9">>
ip_10 == <<"1", "0", ".", "0", ".", "0", ".", "1", "0">>

\* Host names with nas as a proper prefix (nas2) and as a proper suffix (mynas).
TextHostnames == {nas, nas2, mynas}
\* The hostname field of an add request is stripped at its ends and not
\* otherwise checked (lines 833, 838): 'my nas' is accepted.
TextAddHostnames == TextHostnames \cup {<<"m", "y", " ", "n", "a", "s">>}
\* (mac, ip) payloads of the staged add and edit requests.
TextAddPayloads == {<<mac_11, ip_7>>}
TextEditPayloads == {<<mac_11, NoText>>, <<NoText, ip_7>>, <<mac_11, ip_7>>}

TextRecordNames == {web, web2}
TextRecordTypes == {<<"A">>}
TextRecordValues == {ip_9, ip_10}

\* A host block written on one line, as an administrator writes it.
OneLineBlock(hostname, mac, ip) ==
    host \o <<" ">> \o hostname \o <<" ", "{", " ">> \o hardware \o <<" ">> \o ethernet
        \o <<" ">> \o mac \o <<";", " ">> \o fixed_address \o <<" ">> \o ip
        \o <<";", " ", "}", "\n">>

\* dhcpd.conf files whose host names are distinct: written by the program's own
\* add, written by hand, with and without a block named nas.
InitConfTexts ==
    { DhcpAddText(DhcpAddText(DhcpAddText(<<>>, mynas, mac_aa, ip_5), nas, mac_aa, ip_5),
                  nas2, mac_aa, ip_5),
      OneLineBlock(nas, mac_aa, ip_5) \o OneLineBlock(nas2, mac_aa, ip_9),
      OneLineBlock(mynas, mac_aa, ip_5) \o OneLineBlock(nas2, mac_aa, ip_9) }

ZoneFileHead ==
    <<"$", "T", "T", "L", " ", "8", "6", "4", "0", "0", "\n", "@", " ", " ", " ", "I", "N",
      " ", " ", "S", "O", "A", " ", "n", "s", ".", " ", "a", "d", "m", "i", "n", ".", "l", "a",
      "n", ".", " ", "(", "\n", " ", " ", " ", " ", " ", " ", " ", " ", " ", " ", " ", " ">>

ZoneFileTail ==
    <<" ", " ", " ", " ", ";", " ", "S", "e", "r", "i", "a", "l", "\n", " ", " ", " ", " ",
      " ", " ", " ", " ", " ", " ", " ", " ", "3", "6", "0", "0", " ", " ", " ", " ", " ", " ",
      " ", " ", ";", " ", "R", "e", "f", "r", "e", "s", "h", "\n", " ", " ", " ", " ", " ",
      " ", " ", " ", " ", " ", " ", " ", "1", "8", "0", "0", " ", " ", " ", " ", " ", " ", " ",
      " ", ";", " ", "R", "e", "t", "r", "y", "\n", " ", " ", " ", " ", " ", " ", " ", " ",
      " ", " ", " ", " ", "6", "0", "4", "8", "0", "0", " ", " ", " ", " ", " ", " ", ";", " ",
      "E", "x", "p", "i", "r", "e", "\n", " ", " ", " ", " ", " ", " ", " ", " ", " ", " ",
      " ", " ", "8", "6", "4", "0", "0", " ", " ", " ", " ", " ", " ", " ", ";", " ", "M", "i",
      "n", "i", "m", "u", "m", " ", "T", "T", "L", "\n", " ", " ", " ", " ", " ", " ", " ",
      " ", ")", "\n", " ", " ", " ", " ", "I", "N", " ", " ", "N", "S", " ", " ", "n", "s",
      ".", "\n">>

\* The zone file create_zone_file writes (lines 416-426), for soa_ns = 'ns' and
\* soa_email = 'admin@lan'.
ZoneFileText(serial) == ZoneFileHead \o SerialText(serial) \o ZoneFileTail

\* Zone files: as created today, as left by an apply earlier in this hour,
\* with a record line written by hand (with a TTL), and with an A and an AAAA
\* record of one name next to a record of another name.
InitZoneTexts ==
    { ZoneFileText(2026110501),
      UpdateSerial(DnsAddText(ZoneFileText(2026110501), web2, <<"A">>, ip_5), 2026110514),
      ZoneFileText(2026110501)
          \o web \o <<" ", "3", "6", "0", "0", " ", "I", "N", " ", "A", " ">> \o ip_5 \o <<"\n">>,
      DnsAddText(DnsAddText(DnsAddText(ZoneFileText(2026110501), web, <<"A">>, ip_5),
                            web, <<"A", "A", "A", "A">>, <<":", ":", "1">>),
                 web2, <<"A">>, ip_7) }

\* No apply has run at the text level.
NoTextOp == [family |-> "none"]

\* The log and the text as they stand (recorded at the entry of an apply function).
Snapshot ==
    [dhcp |-> pending_dhcp, dns |-> pending_dns, conf |-> dhcp_conf, zones |-> zone_files]

NoSnapshot == [dhcp |-> <<>>, dns |-> <<>>, conf |-> <<>>, zones |-> <<>>]

\* ------------------------------------------------ sessions (101-119, 759-811)

\* No 'sudo_password' key in the session.
NoCredential == "none"

\* The sudo passwords a session can hold.
Credentials == {"pw1", "pw2"}

Session(user, password) == [user |-> user, sudo_password |-> password]

\* The sessions a request can come with: not logged in, logged in, and logged
\* in with a sudo password (POST /api/sudo stores it for a logged-in user only,
\* and logout clears the whole session).
Sessions ==
    {Session(FALSE, NoCredential), Session(TRUE, NoCredential)}
        \cup {Session(TRUE, c) : c \in Credentials}

\* A logged-in administrator who has given the sudo password.
AdminSession == Session(TRUE, "pw1")

\* The threads that run scan_network: background_scanner's thread and the
\* threads POST /api/scan/start creates.
ScanThreads == {"scanner", "manual1", "manual2"}

\* The program after start-up: empty log, no request received yet.
ProgramInit ==
    /\ spawned = <<>>
    /\ clock = 1
    /\ scan_in_progress = FALSE
    /\ scan_pc = [t \in ScanThreads |-> "idle"]
    /\ pending_dhcp = <<>>
    /\ pending_dns = <<>>
    /\ lock = NoProc
    /\ dhcp_conf \in InitConfs
    /\ service_conf = dhcp_conf
    /\ zone_files = [z \in ZoneNames |-> InitZone]
    /\ tmp = [f \in {"dhcpd.conf"} \cup ZoneNames |-> Absent]
    /\ pc = [p \in Procs |-> "idle"]
    /\ arg = [p \in Procs |-> NoArg]
    /\ has_dhcp = [p \in Procs |-> FALSE]
    /\ has_dns = [p \in Procs |-> FALSE]
    /\ content = [p \in Procs |-> <<>>]
    /\ original_content = [p \in Procs |-> <<>>]
    /\ changes = [p \in Procs |-> <<>>]
    /\ success = [p \in Procs |-> FALSE]
    /\ todo = [p \in Procs |-> <<>>]
    /\ results = [p \in Procs |-> <<>>]
    /\ ret_dhcp = [p \in Procs |-> "none"]
    /\ sudo_cmds = [p \in Procs |-> {}]
    /\ at_call = [p \in Procs |-> NoSnapshot]
    /\ observed = [p \in Procs |-> NoResponse]

\* Every request comes from a logged-in administrator with the sudo password.
Init ==
    /\ ProgramInit
    /\ session = [p \in Procs |-> AdminSession]
    /\ conf_text = <<>>
    /\ zone_text = <<>>
    /\ text_op = NoTextOp

\* Thread p receives the next request: threads are numbered in order of arrival.
NextRequest(p) == pc[p] = "idle" /\ \A q \in Procs : q < p => pc[q] # "idle"

\* Mutant of login_required: the route body runs whatever the session holds.
login_not_required(p) == TRUE

\* @login_required, passed: 'user' in session.
login_required(p) == session[p].user

\* @sudo_required, passed: 'sudo_password' in session.
sudo_required(p) == session[p].sudo_password # NoCredential

\* Mutant of LockFree: the critical sections are entered without the lock.
LockIgnored == TRUE

\* pending_changes_lock can be taken.
LockFree == lock = NoProc

\* ------------------------------------------------- staging: DHCP (204-239)

\* Route POST /api/dhcp/host: validated fields, then add_dhcp_host.
api_add_dhcp_host(p) ==
    /\ NextRequest(p)
    /\ login_required(p)
    /\ \E h \in Hostnames, m \in Macs, i \in Ips :
          arg' = [arg EXCEPT ![p] = [op |-> "add_dhcp", change |-> DhcpChange("add", h, m, i)]]
    /\ pc' = [pc EXCEPT ![p] = "add_dhcp_host"]
    /\ UNCHANGED <<shared, apply_locals>>
    /\ UNCHANGED <<service_conf, observed, text_vars, side_vars>>

\* Mutant of add_dhcp_host: stage_only is honoured as False and the host block is
\* written to the configuration at once.
add_dhcp_host_unstaged(p) ==
    /\ pc[p] = "add_dhcp_host"
    /\ LockFree
    /\ dhcp_conf' = Append(dhcp_conf, HostBlock(arg[p].change.hostname, arg[p].change.mac,
                                               arg[p].change.ip))
    /\ pc' = [pc EXCEPT ![p] = "done"]
    /\ UNCHANGED <<pending_dhcp, pending_dns, lock, zone_files, tmp, arg, apply_locals>>
    /\ UNCHANGED <<service_conf, observed, text_vars, side_vars>>

\* with pending_changes_lock: pending_changes['dhcp'].append({... 'add' ...});
\* the parameter stage_only is not read.
add_dhcp_host(p) ==
    /\ pc[p] = "add_dhcp_host"
    /\ LockFree
    /\ pending_dhcp' = AddStaged(pending_dhcp, arg[p].change)
    /\ pc' = [pc EXCEPT ![p] = "done"]
    /\ UNCHANGED <<pending_dns, lock, dhcp_conf, zone_files, tmp, arg, apply_locals>>
    /\ UNCHANGED <<service_conf, observed, text_vars, side_vars>>

\* Route PUT /api/dhcp/host/<hostname>: mac and ip are optional.
api_edit_dhcp_host(p) ==
    /\ NextRequest(p)
    /\ login_required(p)
    /\ \E h \in Hostnames, d \in EditPayloads :
          arg' = [arg EXCEPT ![p] = [op |-> "edit_dhcp", change |-> DhcpChange("edit", h, d[1], d[2])]]
    /\ pc' = [pc EXCEPT ![p] = "edit_dhcp_host"]
    /\ UNCHANGED <<shared, apply_locals>>
    /\ UNCHANGED <<service_conf, observed, text_vars, side_vars>>

\* Route DELETE /api/dhcp/host/<hostname>.
api_delete_dhcp_host(p) ==
    /\ NextRequest(p)
    /\ login_required(p)
    /\ \E h \in Hostnames :
          arg' = [arg EXCEPT ![p] = [op |-> "delete_dhcp", change |-> DhcpChange("delete", h, None, None)]]
    /\ pc' = [pc EXCEPT ![p] = "delete_dhcp_host"]
    /\ UNCHANGED <<shared, apply_locals>>
    /\ UNCHANGED <<service_conf, observed, text_vars, side_vars>>

\* edit_dhcp_host: with pending_changes_lock (acquire).
edit_dhcp_host(p) ==
    /\ pc[p] = "edit_dhcp_host"
    /\ LockFree
    /\ lock' = p
    /\ pc' = [pc EXCEPT ![p] = "edit_filter"]
    /\ UNCHANGED <<pending_dhcp, pending_dns, dhcp_conf, zone_files, tmp, arg, apply_locals>>
    /\ UNCHANGED <<service_conf, observed, text_vars, side_vars>>

\* edit_dhcp_host: remove any existing pending changes for this host.
edit_filter(p) ==
    /\ pc[p] = "edit_filter"
    /\ pending_dhcp' = WithoutHost(pending_dhcp, arg[p].change.hostname)
    /\ pc' = [pc EXCEPT ![p] = "edit_append"]
    /\ UNCHANGED <<pending_dns, lock, dhcp_conf, zone_files, tmp, arg, apply_locals>>
    /\ UNCHANGED <<service_conf, observed, text_vars, side_vars>>

\* edit_dhcp_host: append the edit, leave the with block (release), return.
edit_append(p) ==
    /\ pc[p] = "edit_append"
    /\ pending_dhcp' = Append(pending_dhcp, arg[p].change)
    /\ lock' = NoProc
    /\ pc' = [pc EXCEPT ![p] = "done"]
    /\ UNCHANGED <<pending_dns, dhcp_conf, zone_files, tmp, arg, apply_locals>>
    /\ UNCHANGED <<service_conf, observed, text_vars, side_vars>>

\* delete_dhcp_host: with pending_changes_lock (acquire).
delete_dhcp_host(p) ==
    /\ pc[p] = "delete_dhcp_host"
    /\ LockFree
    /\ lock' = p
    /\ pc' = [pc EXCEPT ![p] = "delete_filter"]
    /\ UNCHANGED <<pending_dhcp, pending_dns, dhcp_conf, zone_files, tmp, arg, apply_locals>>
    /\ UNCHANGED <<service_conf, observed, text_vars, side_vars>>

\* delete_dhcp_host: remove any existing pending changes for this host.
delete_filter(p) ==
    /\ pc[p] = "delete_filter"
    /\ pending_dhcp' = WithoutHost(pending_dhcp, arg[p].change.hostname)
    /\ pc' = [pc EXCEPT ![p] = "delete_append"]
    /\ UNCHANGED <<pending_dns, lock, dhcp_conf, zone_files, tmp, arg, apply_locals>>
    /\ UNCHANGED <<service_conf, observed, text_vars, side_vars>>

\* delete_dhcp_host: append the delete, leave the with block (release), return.
delete_append(p) ==
    /\ pc[p] = "delete_append"
    /\ pending_dhcp' = Append(pending_dhcp, arg[p].change)
    /\ lock' = NoProc
    /\ pc' = [pc EXCEPT ![p] = "done"]
    /\ UNCHANGED <<pending_dns, dhcp_conf, zone_files, tmp, arg, apply_locals>>
    /\ UNCHANGED <<service_conf, observed, text_vars, side_vars>>

\* -------------------------------------------------- staging: DNS (446-477)

\* Route POST /api/dns/zone/<zone>/record.
api_add_dns_record(p) ==
    /\ NextRequest(p)
    /\ login_required(p)
    /\ \E z \in ZoneNames, n \in RecordNames, t \in RecordTypes, v \in RecordValues :
          arg' = [arg EXCEPT ![p] = [op |-> "add_dns", change |-> DnsChange("add", z, n, t, v)]]
    /\ pc' = [pc EXCEPT ![p] = "add_dns_record"]
    /\ UNCHANGED <<shared, apply_locals>>
    /\ UNCHANGED <<service_conf, observed, text_vars, side_vars>>

\* Route PUT /api/dns/zone/<zone>/record.
api_edit_dns_record(p) ==
    /\ NextRequest(p)
    /\ login_required(p)
    /\ \E z \in ZoneNames, n \in RecordNames, t \in RecordTypes, v \in RecordValues :
          arg' = [arg EXCEPT ![p] = [op |-> "edit_dns", change |-> DnsChange("edit", z, n, t, v)]]
    /\ pc' = [pc EXCEPT ![p] = "edit_dns_record"]
    /\ UNCHANGED <<shared, apply_locals>>
    /\ UNCHANGED <<service_conf, observed, text_vars, side_vars>>

\* Route DELETE /api/dns/zone/<zone>/record/<name>/<rtype>.
api_delete_dns_record(p) ==
    /\ NextRequest(p)
    /\ login_required(p)
    /\ \E z \in ZoneNames, n \in RecordNames, t \in RecordTypes :
          arg' = [arg EXCEPT ![p] = [op |-> "delete_dns", change |-> DnsChange("delete", z, n, t, None)]]
    /\ pc' = [pc EXCEPT ![p] = "delete_dns_record"]
    /\ UNCHANGED <<shared, apply_locals>>
    /\ UNCHANGED <<service_conf, observed, text_vars, side_vars>>

\* with pending_changes_lock: pending_changes['dns'].append({... 'add' ...})
add_dns_record(p) ==
    /\ pc[p] = "add_dns_record"
    /\ LockFree
    /\ pending_dns' = DnsStaged(pending_dns, arg[p].change)
    /\ pc' = [pc EXCEPT ![p] = "done"]
    /\ UNCHANGED <<pending_dhcp, lock, dhcp_conf, zone_files, tmp, arg, apply_locals>>
    /\ UNCHANGED <<service_conf, observed, text_vars, side_vars>>

\* with pending_changes_lock: pending_changes['dns'].append({... 'edit' ...})
edit_dns_record(p) ==
    /\ pc[p] = "edit_dns_record"
    /\ LockFree
    /\ pending_dns' = DnsStaged(pending_dns, arg[p].change)
    /\ pc' = [pc EXCEPT ![p] = "done"]
    /\ UNCHANGED <<pending_dhcp, lock, dhcp_conf, zone_files, tmp, arg, apply_locals>>
    /\ UNCHANGED <<service_conf, observed, text_vars, side_vars>>

\* with pending_changes_lock: pending_changes['dns'].append({... 'delete' ...})
delete_dns_record(p) ==
    /\ pc[p] = "delete_dns_record"
    /\ LockFree
    /\ pending_dns' = DnsStaged(pending_dns, arg[p].change)
    /\ pc' = [pc EXCEPT ![p] = "done"]
    /\ UNCHANGED <<pending_dhcp, lock, dhcp_conf, zone_files, tmp, arg, apply_locals>>
    /\ UNCHANGED <<service_conf, observed, text_vars, side_vars>>

\* ------------------------------------------------------ discard (1045-1052)

\* Route POST /api/changes/discard (request accepted).
api_discard_changes(p) ==
    /\ NextRequest(p)
    /\ login_required(p)
    /\ arg' = [arg EXCEPT ![p] = [op |-> "discard"]]
    /\ pc' = [pc EXCEPT ![p] = "discard_changes"]
    /\ UNCHANGED <<shared, apply_locals>>
    /\ UNCHANGED <<service_conf, observed, text_vars, side_vars>>

\* Mutant of discard_changes: the lists are emptied in place, and with them the
\* list an apply is iterating over.
discard_changes_in_place(p) ==
    /\ pc[p] = "discard_changes"
    /\ LockFree
    /\ pending_dhcp' = <<>>
    /\ pending_dns' = <<>>
    /\ changes' = [q \in Procs |-> <<>>]
    /\ pc' = [pc EXCEPT ![p] = "done"]
    /\ UNCHANGED <<lock, dhcp_conf, zone_files, tmp, arg, has_dhcp, has_dns, content,
                   original_content, success, todo, results, ret_dhcp, sudo_cmds, at_call>>
    /\ UNCHANGED <<service_conf, observed, text_vars, side_vars>>

\* with pending_changes_lock: both families are rebound to new empty lists.
discard_changes(p) ==
    /\ pc[p] = "discard_changes"
    /\ LockFree
    /\ pending_dhcp' = <<>>
    /\ pending_dns' = <<>>
    /\ pc' = [pc EXCEPT ![p] = "done"]
    /\ UNCHANGED <<lock, dhcp_conf, zone_files, tmp, arg, apply_locals>>
    /\ UNCHANGED <<service_conf, observed, text_vars, side_vars>>

\* ------------------------------------------- readers (1010-1019, 1054-1085)

\* Route GET /api/changes (request accepted).
api_get_changes(p) ==
    /\ NextRequest(p)
    /\ login_required(p)
    /\ arg' = [arg EXCEPT ![p] = [op |-> "get_changes"]]
    /\ pc' = [pc EXCEPT ![p] = "get_changes"]
    /\ UNCHANGED <<shared, apply_locals, service_conf, observed, text_vars, side_vars>>

\* The body of GET /api/changes for a log.
ChangesResponse(dhcp, dns) ==
    [route |-> "changes", dhcp |-> dhcp, dns |-> dns, total |-> Len(dhcp) + Len(dns)]

\* with pending_changes_lock: return jsonify({'dhcp': ..., 'dns': ..., 'total': ...})
get_changes(p) ==
    /\ pc[p] = "get_changes"
    /\ LockFree
    /\ observed' = [observed EXCEPT ![p] = ChangesResponse(pending_dhcp, pending_dns)]
    /\ pc' = [pc EXCEPT ![p] = "done"]
    /\ UNCHANGED <<shared, arg, apply_locals, service_conf, text_vars, side_vars>>

\* Route GET /api/changes/preview (request accepted).
api_preview_changes(p) ==
    /\ NextRequest(p)
    /\ login_required(p)
    /\ arg' = [arg EXCEPT ![p] = [op |-> "preview"]]
    /\ pc' = [pc EXCEPT ![p] = "preview_changes"]
    /\ UNCHANGED <<shared, apply_locals, service_conf, observed, text_vars, side_vars>>

\* The line of a DHCP change: sign and verb, host name, and MAC and IP unless
\* the change is a delete.
PreviewDhcp(c) ==
    CASE c.action = "add" -> <<"+ Add host", c.hostname, c.mac, c.ip>>
      [] c.action = "edit" -> <<"~ Edit host", c.hostname, c.mac, c.ip>>
      [] c.action = "delete" -> <<"- Delete host", c.hostname>>

\* The line of a DNS change: sign and verb, type, name, value unless the change
\* is a delete, and zone.
PreviewDns(c) ==
    CASE c.action = "add" -> <<"+ Add", c.type, c.name, c.value, c.zone>>
      [] c.action = "edit" -> <<"~ Edit", c.type, c.name, c.value, c.zone>>
      [] c.action = "delete" -> <<"- Delete", c.type, c.name, c.zone>>

\* The body of GET /api/changes/preview for a log.
PreviewResponse(dhcp, dns) ==
    [route |-> "preview",
     dhcp |-> [i \in 1..Len(dhcp) |-> PreviewDhcp(dhcp[i])],
     dns |-> [i \in 1..Len(dns) |-> PreviewDns(dns[i])]]

\* with pending_changes_lock: one line per pending change; the log is only read.
preview_changes(p) ==
    /\ pc[p] = "preview_changes"
    /\ LockFree
    /\ observed' = [observed EXCEPT ![p] = PreviewResponse(pending_dhcp, pending_dns)]
    /\ pc' = [pc EXCEPT ![p] = "done"]
    /\ UNCHANGED <<shared, arg, apply_locals, service_conf, text_vars, side_vars>>

\* ------------------------------------------- privileged helper (121-136)

\* run_with_sudo returns (returncode == 0, ...): the command took effect or it
\* did not (bad credential, failing command, timeout, spawn error).
SudoOutcomes == BOOLEAN

\* cp <temp> <target> succeeds only if sudo lets it run and the source exists.
CopyOk(ok, src) == ok /\ tmp[src] # Absent

\* Mutant of Copied: the copy takes effect although it is reported as failed.
CopiedThoughFailed(ok, src, old) == IF tmp[src] # Absent THEN TextOf(tmp[src]) ELSE old

\* The target of cp after the command: the temp file's text on success.
Copied(ok, src, old) == IF CopyOk(ok, src) THEN TextOf(tmp[src]) ELSE old

\* ------------------------------------------------ apply route (1021-1043)

\* Route POST /api/changes/apply (login and sudo password present).
api_apply_changes(p) ==
    /\ NextRequest(p)
    /\ login_required(p)
    /\ sudo_required(p)
    /\ arg' = [arg EXCEPT ![p] = [op |-> "apply"]]
    /\ pc' = [pc EXCEPT ![p] = "apply_check"]
    /\ UNCHANGED <<shared, apply_locals>>
    /\ UNCHANGED <<service_conf, observed, text_vars, side_vars>>

\* Where the route goes after the non-empty check and after apply_dhcp_changes.
AfterCheck(dhcp, dns) ==
    IF dhcp THEN "dhcp_open" ELSE IF dns THEN "dns_snap" ELSE "apply_return"

\* with pending_changes_lock: has_dhcp, has_dns.
apply_check(p) ==
    /\ pc[p] = "apply_check"
    /\ LockFree
    /\ has_dhcp' = [has_dhcp EXCEPT ![p] = Len(pending_dhcp) > 0]
    /\ has_dns' = [has_dns EXCEPT ![p] = Len(pending_dns) > 0]
    /\ pc' = [pc EXCEPT ![p] = AfterCheck(Len(pending_dhcp) > 0, Len(pending_dns) > 0)]
    /\ UNCHANGED <<shared, arg, content, original_content, changes, success,
                   todo, results, ret_dhcp, sudo_cmds, at_call>>
    /\ UNCHANGED <<service_conf, observed, text_vars, side_vars>>

\* ------------------------------------------ apply_dhcp_changes (241-301)

\* except Exception: return False, str(e), '', ''
DhcpRaise(p) ==
    /\ ret_dhcp' = [ret_dhcp EXCEPT ![p] = "failed"]
    /\ pc' = [pc EXCEPT ![p] = "dhcp_return"]

\* Entry; open(CONFIG['dhcp_conf']).read() may raise.
dhcp_open(p) ==
    /\ pc[p] = "dhcp_open"
    /\ at_call' = [at_call EXCEPT ![p] = Snapshot]
    /\ \E readable \in BOOLEAN :
          IF readable
          THEN /\ content' = [content EXCEPT ![p] = dhcp_conf]
               /\ original_content' = [original_content EXCEPT ![p] = dhcp_conf]
               /\ pc' = [pc EXCEPT ![p] = "dhcp_snap"]
               /\ UNCHANGED ret_dhcp
          ELSE /\ DhcpRaise(p)
               /\ UNCHANGED <<content, original_content>>
    /\ UNCHANGED <<shared, arg, has_dhcp, has_dns, changes, success, todo, results, sudo_cmds>>
    /\ UNCHANGED <<service_conf, observed, text_vars, side_vars>>

\* with pending_changes_lock: changes = pending_changes['dhcp'][:]
dhcp_snap(p) ==
    /\ pc[p] = "dhcp_snap"
    /\ LockFree
    /\ changes' = [changes EXCEPT ![p] = pending_dhcp]
    /\ pc' = [pc EXCEPT ![p] = "dhcp_write"]
    /\ UNCHANGED <<shared, arg, has_dhcp, has_dns, content, original_content, success,
                   todo, results, ret_dhcp, sudo_cmds, at_call>>
    /\ UNCHANGED <<service_conf, observed, text_vars, side_vars>>

\* The loop over the snapshot, then the write of the temp file (may raise).
dhcp_write(p) ==
    /\ pc[p] = "dhcp_write"
    /\ LET new == FoldDhcp(content[p], changes[p])
       IN  /\ content' = [content EXCEPT ![p] = new]
           /\ \E written \in BOOLEAN :
                 IF written
                 THEN /\ tmp' = [tmp EXCEPT !["dhcpd.conf"] = File(new)]
                      /\ pc' = [pc EXCEPT ![p] = "dhcp_cp"]
                      /\ UNCHANGED ret_dhcp
                 ELSE /\ DhcpRaise(p)
                      /\ UNCHANGED tmp
    /\ UNCHANGED <<pending_dhcp, pending_dns, lock, dhcp_conf, zone_files, arg, has_dhcp,
                   has_dns, original_content, changes, success, todo, results,
                   sudo_cmds, at_call>>
    /\ UNCHANGED <<service_conf, observed, text_vars, side_vars>>

\* success, _, stderr = run_with_sudo(['cp', temp_file, CONFIG['dhcp_conf']])
dhcp_cp(p) ==
    /\ pc[p] = "dhcp_cp"
    /\ sudo_cmds' = [sudo_cmds EXCEPT ![p] = @ \cup {"cp_dhcp"}]
    /\ \E ok \in SudoOutcomes :
          /\ success' = [success EXCEPT ![p] = CopyOk(ok, "dhcpd.conf")]
          /\ dhcp_conf' = Copied(ok, "dhcpd.conf", dhcp_conf)
    /\ pc' = [pc EXCEPT ![p] = "dhcp_rm"]
    /\ UNCHANGED <<pending_dhcp, pending_dns, lock, zone_files, tmp, arg, has_dhcp, has_dns,
                   content, original_content, changes, todo, results, ret_dhcp, at_call>>
    /\ UNCHANGED <<service_conf, observed, text_vars, side_vars>>

\* Mutant of AfterDhcpCopy: the log is cleared whatever the copy returned.
AfterDhcpCopyAlways(ok) == "dhcp_reload"

\* if success: reload and clear; the return value carries success.
AfterDhcpCopy(ok) == IF ok THEN "dhcp_reload" ELSE "dhcp_return"

\* os.remove(temp_file) raises when the file is gone; then `if success:`.
dhcp_rm(p) ==
    /\ pc[p] = "dhcp_rm"
    /\ IF tmp["dhcpd.conf"] = Absent
       THEN /\ DhcpRaise(p)
            /\ UNCHANGED tmp
       ELSE /\ tmp' = [tmp EXCEPT !["dhcpd.conf"] = Absent]
            /\ pc' = [pc EXCEPT ![p] = AfterDhcpCopy(success[p])]
            /\ ret_dhcp' = [ret_dhcp EXCEPT ![p] = IF success[p] THEN "ok" ELSE "failed"]
    /\ UNCHANGED <<pending_dhcp, pending_dns, lock, dhcp_conf, zone_files, arg, has_dhcp,
                   has_dns, content, original_content, changes, success, todo, results,
                   sudo_cmds, at_call>>
    /\ UNCHANGED <<service_conf, observed, text_vars, side_vars>>

\* Mutant of AfterDhcpReload: a failed reload keeps the pending changes.
AfterDhcpReloadChecked(ok) == IF ok THEN "dhcp_clear" ELSE "dhcp_return"

\* The value of run_with_sudo(['systemctl', 'reload', ...]) is not looked at:
\* line 297 follows whatever the reload returned.
AfterDhcpReload(ok) == "dhcp_clear"

\* run_with_sudo(['systemctl', 'reload', 'isc-dhcp-server']): on success the
\* service loads the file as it is now; its result is ignored.
dhcp_reload(p) ==
    /\ pc[p] = "dhcp_reload"
    /\ sudo_cmds' = [sudo_cmds EXCEPT ![p] = @ \cup {"reload_dhcp"}]
    /\ \E ok \in SudoOutcomes :
          /\ service_conf' = IF ok THEN dhcp_conf ELSE service_conf
          /\ pc' = [pc EXCEPT ![p] = AfterDhcpReload(ok)]
    /\ UNCHANGED <<shared, arg, has_dhcp, has_dns, content, original_content, changes,
                   success, todo, results, ret_dhcp, at_call>>
    /\ UNCHANGED <<observed, text_vars, side_vars>>

\* with pending_changes_lock: pending_changes['dhcp'] = []
dhcp_clear(p) ==
    /\ pc[p] = "dhcp_clear"
    /\ LockFree
    /\ pending_dhcp' = <<>>
    /\ pc' = [pc EXCEPT ![p] = "dhcp_return"]
    /\ UNCHANGED <<pending_dns, lock, dhcp_conf, zone_files, tmp, arg, apply_locals>>
    /\ UNCHANGED <<service_conf, observed, text_vars, side_vars>>

\* apply_dhcp_changes has returned to the route.
dhcp_return(p) ==
    /\ pc[p] = "dhcp_return"
    /\ pc' = [pc EXCEPT ![p] = AfterCheck(FALSE, has_dns[p])]
    /\ UNCHANGED <<shared, arg, apply_locals>>
    /\ UNCHANGED <<service_conf, observed, text_vars, side_vars>>

\* ------------------------------------------- apply_dns_changes (479-547)

\* Mutant of AfterZone: reload and clear only when every zone succeeded.
AfterZoneAllOk(td, res) ==
    IF td # <<>> THEN "zone_open"
    ELSE IF res # <<>> /\ \A i \in 1..Len(res) : res[i].status = "ok"
         THEN "dns_reload" ELSE "dns_return"

\* After a zone's iteration: the next zone, or the reload decision of line 542.
AfterZone(td, res) ==
    IF td # <<>> THEN "zone_open"
    ELSE IF AnyOk(res) THEN "dns_reload" ELSE "dns_return"

ZoneResult(zone, status) == [zone |-> zone, status |-> status]

\* Mutant of ZoneDone: a failed zone ends the pass, the remaining zones are skipped.
ZoneDoneAbort(p, status) ==
    LET res == Append(results[p], ZoneResult(Head(todo[p]), status))
        rest == IF status = "failed" THEN <<>> ELSE Tail(todo[p])
    IN  /\ results' = [results EXCEPT ![p] = res]
        /\ todo' = [todo EXCEPT ![p] = rest]
        /\ pc' = [pc EXCEPT ![p] = AfterZone(rest, res)]

\* results.append({'zone': zone_name, 'status': ...}) and on to the next zone.
ZoneDone(p, status) ==
    LET res == Append(results[p], ZoneResult(Head(todo[p]), status))
    IN  /\ results' = [results EXCEPT ![p] = res]
        /\ todo' = [todo EXCEPT ![p] = Tail(todo[p])]
        /\ pc' = [pc EXCEPT ![p] = AfterZone(Tail(todo[p]), res)]

\* Entry; with pending_changes_lock: changes = pending_changes['dns'][:]; grouping.
dns_snap(p) ==
    /\ pc[p] = "dns_snap"
    /\ LockFree
    /\ at_call' = [at_call EXCEPT ![p] = Snapshot]
    /\ changes' = [changes EXCEPT ![p] = pending_dns]
    /\ todo' = [todo EXCEPT ![p] = ZonesToUpdate(pending_dns)]
    /\ results' = [results EXCEPT ![p] = <<>>]
    /\ pc' = [pc EXCEPT ![p] = AfterZone(ZonesToUpdate(pending_dns), <<>>)]
    /\ UNCHANGED <<shared, arg, has_dhcp, has_dns, content, original_content, success,
                   ret_dhcp, sudo_cmds>>
    /\ UNCHANGED <<service_conf, observed, text_vars, side_vars>>

\* open(filepath).read() of the zone at the head of the loop; may raise.
zone_open(p) ==
    /\ pc[p] = "zone_open"
    /\ \E readable \in BOOLEAN :
          IF readable
          THEN /\ content' = [content EXCEPT ![p] = zone_files[Head(todo[p])]]
               /\ original_content' = [original_content EXCEPT ![p] = zone_files[Head(todo[p])]]
               /\ pc' = [pc EXCEPT ![p] = "zone_write"]
               /\ UNCHANGED <<todo, results>>
          ELSE /\ ZoneDone(p, "failed")
               /\ UNCHANGED <<content, original_content>>
    /\ UNCHANGED <<shared, arg, has_dhcp, has_dns, changes, success, ret_dhcp, sudo_cmds, at_call>>
    /\ UNCHANGED <<service_conf, observed, text_vars, side_vars>>

\* The zone's changes folded in log order, the serial rewritten, the temp file written.
zone_write(p) ==
    /\ pc[p] = "zone_write"
    /\ \E serial \in NowSerials, written \in BOOLEAN :
          LET zone == Head(todo[p])
              new == ZoneText(serial, FoldDns(content[p].lines, ZoneChanges(changes[p], zone)))
          IN  /\ content' = [content EXCEPT ![p] = new]
              /\ IF written
                 THEN /\ tmp' = [tmp EXCEPT ![zone] = File(new)]
                      /\ pc' = [pc EXCEPT ![p] = "zone_cp"]
                      /\ UNCHANGED <<todo, results>>
                 ELSE /\ ZoneDone(p, "failed")
                      /\ UNCHANGED tmp
    /\ UNCHANGED <<pending_dhcp, pending_dns, lock, dhcp_conf, zone_files, arg, has_dhcp,
                   has_dns, original_content, changes, success, ret_dhcp, sudo_cmds, at_call>>
    /\ UNCHANGED <<service_conf, observed, text_vars, side_vars>>

\* success, _, stderr = run_with_sudo(['cp', temp_file, filepath])
zone_cp(p) ==
    /\ pc[p] = "zone_cp"
    /\ sudo_cmds' = [sudo_cmds EXCEPT ![p] = @ \cup {"cp_zone"}]
    /\ \E ok \in SudoOutcomes :
          LET zone == Head(todo[p])
          IN  /\ success' = [success EXCEPT ![p] = CopyOk(ok, zone)]
              /\ zone_files' = [zone_files EXCEPT ![zone] = Copied(ok, zone, zone_files[zone])]
    /\ pc' = [pc EXCEPT ![p] = "zone_rm"]
    /\ UNCHANGED <<pending_dhcp, pending_dns, lock, dhcp_conf, tmp, arg, has_dhcp, has_dns,
                   content, original_content, changes, todo, results, ret_dhcp, at_call>>
    /\ UNCHANGED <<service_conf, observed, text_vars, side_vars>>

\* os.remove(temp_file) raises when the file is gone; then `if success:`.
zone_rm(p) ==
    /\ pc[p] = "zone_rm"
    /\ IF tmp[Head(todo[p])] = Absent
       THEN /\ ZoneDone(p, "failed")
            /\ UNCHANGED tmp
       ELSE /\ tmp' = [tmp EXCEPT ![Head(todo[p])] = Absent]
            /\ IF success[p]
               THEN /\ pc' = [pc EXCEPT ![p] = "zone_chown"]
                    /\ UNCHANGED <<todo, results>>
               ELSE ZoneDone(p, "failed")
    /\ UNCHANGED <<pending_dhcp, pending_dns, lock, dhcp_conf, zone_files, arg, has_dhcp,
                   has_dns, content, original_content, changes, success, ret_dhcp,
                   sudo_cmds, at_call>>
    /\ UNCHANGED <<service_conf, observed, text_vars, side_vars>>

\* run_with_sudo(['chown', 'bind:bind', filepath]); the zone is reported 'ok'.
zone_chown(p) ==
    /\ pc[p] = "zone_chown"
    /\ sudo_cmds' = [sudo_cmds EXCEPT ![p] = @ \cup {"chown_zone"}]
    /\ ZoneDone(p, "ok")
    /\ UNCHANGED <<shared, arg, has_dhcp, has_dns, content, original_content, changes,
                   success, ret_dhcp, at_call>>
    /\ UNCHANGED <<service_conf, observed, text_vars, side_vars>>

\* if any(r['status'] == 'ok'): run_with_sudo(['systemctl', 'reload', 'bind9'])
dns_reload(p) ==
    /\ pc[p] = "dns_reload"
    /\ sudo_cmds' = [sudo_cmds EXCEPT ![p] = @ \cup {"reload_bind"}]
    /\ pc' = [pc EXCEPT ![p] = "dns_clear"]
    /\ UNCHANGED <<shared, arg, has_dhcp, has_dns, content, original_content, changes,
                   success, todo, results, ret_dhcp, at_call>>
    /\ UNCHANGED <<service_conf, observed, text_vars, side_vars>>

\* with pending_changes_lock: pending_changes['dns'] = []
dns_clear(p) ==
    /\ pc[p] = "dns_clear"
    /\ LockFree
    /\ pending_dns' = <<>>
    /\ pc' = [pc EXCEPT ![p] = "dns_return"]
    /\ UNCHANGED <<pending_dhcp, lock, dhcp_conf, zone_files, tmp, arg, apply_locals>>
    /\ UNCHANGED <<service_conf, observed, text_vars, side_vars>>

\* apply_dns_changes has returned to the route.
dns_return(p) ==
    /\ pc[p] = "dns_return"
    /\ pc' = [pc EXCEPT ![p] = "apply_return"]
    /\ UNCHANGED <<shared, arg, apply_locals>>
    /\ UNCHANGED <<service_conf, observed, text_vars, side_vars>>

\* return jsonify(results): the request is over and its locals are gone.
apply_return(p) ==
    /\ pc[p] = "apply_return"
    /\ pc' = [pc EXCEPT ![p] = "done"]
    /\ has_dhcp' = [has_dhcp EXCEPT ![p] = FALSE]
    /\ has_dns' = [has_dns EXCEPT ![p] = FALSE]
    /\ content' = [content EXCEPT ![p] = <<>>]
    /\ original_content' = [original_content EXCEPT ![p] = <<>>]
    /\ changes' = [changes EXCEPT ![p] = <<>>]
    /\ success' = [success EXCEPT ![p] = FALSE]
    /\ todo' = [todo EXCEPT ![p] = <<>>]
    /\ results' = [results EXCEPT ![p] = <<>>]
    /\ ret_dhcp' = [ret_dhcp EXCEPT ![p] = "none"]
    /\ sudo_cmds' = [sudo_cmds EXCEPT ![p] = {}]
    /\ at_call' = [at_call EXCEPT ![p] = NoSnapshot]
    /\ UNCHANGED <<shared, arg>>
    /\ UNCHANGED <<service_conf, observed, text_vars, side_vars>>

\* ----------------------------------------- text level: stage and apply
\* The staging rules and the two folds run one after the other (no
\* interleaving, every step succeeds) on the characters of a file: the strings
\* of a pending change are spelled as characters here.

program_vars ==
    <<lock, dhcp_conf, zone_files, tmp, pc, arg, has_dhcp, has_dns, content,
      original_content, changes, success, todo, results, ret_dhcp, sudo_cmds, at_call,
      service_conf, observed>>

\* add_dhcp_host, edit_dhcp_host or delete_dhcp_host, run alone.
stage_dhcp_text ==
    /\ text_op = NoTextOp
    /\ Len(pending_dhcp) < MaxLog
    /\ \/ \E h \in TextAddHostnames, d \in TextAddPayloads :
             pending_dhcp' = AddStaged(pending_dhcp, DhcpChange("add", h, d[1], d[2]))
       \/ \E h \in TextHostnames :
          \/ \E d \in TextEditPayloads :
                pending_dhcp' = Append(WithoutHost(pending_dhcp, h),
                                       DhcpChange("edit", h, d[1], d[2]))
          \/ pending_dhcp' = Append(WithoutHost(pending_dhcp, h),
                                    DhcpChange("delete", h, NoText, NoText))
    /\ UNCHANGED <<pending_dns, program_vars, text_vars, side_vars>>

\* add_dns_record, edit_dns_record or delete_dns_record, run alone.
stage_dns_text ==
    /\ text_op = NoTextOp
    /\ Len(pending_dns) < MaxLog
    /\ \E n \in TextRecordNames, t \in TextRecordTypes :
          \/ \E v \in TextRecordValues, a \in {"add", "edit"} :
                pending_dns' = DnsStaged(pending_dns, DnsChange(a, "example.com", n, t, v))
          \/ pending_dns' = DnsStaged(pending_dns, DnsChange("delete", "example.com", n, t, NoText))
    /\ UNCHANGED <<pending_dhcp, program_vars, text_vars, side_vars>>

\* api_discard_changes, run alone.
discard_text ==
    /\ text_op = NoTextOp
    /\ pending_dhcp # <<>> \/ pending_dns # <<>>
    /\ pending_dhcp' = <<>>
    /\ pending_dns' = <<>>
    /\ UNCHANGED <<program_vars, text_vars, side_vars>>

\* What an apply did: the snapshot it folded, the text it read, its serial.
TextOp(family, chs, before, serial) ==
    [family |-> family, changes |-> chs, before |-> before, serial |-> serial]

\* apply_dhcp_changes with a successful copy, in the first request thread: the
\* snapshot folded into the text of the file, the text copied and the service
\* reloaded whatever the fold did, the family cleared, success returned.
apply_dhcp_text ==
    /\ text_op = NoTextOp
    /\ pending_dhcp # <<>>
    /\ conf_text' = FoldDhcpText(conf_text, pending_dhcp)
    /\ sudo_cmds' = [sudo_cmds EXCEPT ![1] = {"cp_dhcp", "reload_dhcp"}]
    /\ ret_dhcp' = [ret_dhcp EXCEPT ![1] = "ok"]
    /\ pending_dhcp' = <<>>
    /\ text_op' = TextOp("dhcp", pending_dhcp, conf_text, 0)
    /\ UNCHANGED <<pending_dns, lock, dhcp_conf, zone_files, tmp, pc, arg, has_dhcp, has_dns,
                   content, original_content, changes, success, todo, results, at_call,
                   service_conf, observed, zone_text, side_vars>>

\* apply_dns_changes with a successful copy, for the one zone of the log: the
\* zone's changes folded in log order, the serial rewritten, the family cleared.
apply_dns_text ==
    /\ text_op = NoTextOp
    /\ pending_dns # <<>>
    /\ \E serial \in NowSerials :
          /\ zone_text' = UpdateSerial(FoldDnsText(zone_text, ZoneChanges(pending_dns, "example.com")),
                                       serial)
          /\ text_op' = TextOp("dns", pending_dns, zone_text, serial)
    /\ pending_dns' = <<>>
    /\ UNCHANGED <<pending_dhcp, program_vars, conf_text, side_vars>>

\* ------------------------------------------------------- specifications

\* The bodies of the staging functions.
StageBody(p) ==
    \/ add_dhcp_host(p)
    \/ edit_dhcp_host(p) \/ edit_filter(p) \/ edit_append(p)
    \/ delete_dhcp_host(p) \/ delete_filter(p) \/ delete_append(p)
    \/ add_dns_record(p) \/ edit_dns_record(p) \/ delete_dns_record(p)

\* The staging routes accepting a request.
StageRequest(p) ==
    \/ api_add_dhcp_host(p) \/ api_edit_dhcp_host(p) \/ api_delete_dhcp_host(p)
    \/ api_add_dns_record(p) \/ api_edit_dns_record(p) \/ api_delete_dns_record(p)

\* The apply route after it accepted the request.
ApplyBody(p) ==
    \/ apply_check(p)
    \/ dhcp_open(p) \/ dhcp_snap(p) \/ dhcp_write(p) \/ dhcp_cp(p) \/ dhcp_rm(p)
    \/ dhcp_reload(p) \/ dhcp_clear(p) \/ dhcp_return(p)
    \/ dns_snap(p) \/ zone_open(p) \/ zone_write(p) \/ zone_cp(p) \/ zone_rm(p)
    \/ zone_chown(p) \/ dns_reload(p) \/ dns_clear(p) \/ dns_return(p)
    \/ apply_return(p)

\* The reading routes.
ReadRequest(p) == api_get_changes(p) \/ api_preview_changes(p)

ReadBody(p) == get_changes(p) \/ preview_changes(p)

Step(p) ==
    \/ StageRequest(p) \/ StageBody(p)
    \/ api_discard_changes(p) \/ discard_changes(p)
    \/ ReadRequest(p) \/ ReadBody(p)
    \/ api_apply_changes(p) \/ ApplyBody(p)

\* The request threads, interleaved at every step.
Next == \E p \in Procs : Step(p)

Spec == Init /\ [][Next]_vars

\* No other request is running.
Quiet(p) == \A q \in Procs \ {p} : pc[q] \in {"idle", "done"}

\* Serialized callers: a request is accepted only when no other request is running.
SeqNext ==
    \E p \in Procs :
        \/ Quiet(p) /\ api_add_dhcp_host(p)
        \/ Quiet(p) /\ api_edit_dhcp_host(p)
        \/ Quiet(p) /\ api_delete_dhcp_host(p)
        \/ Quiet(p) /\ api_add_dns_record(p)
        \/ Quiet(p) /\ api_edit_dns_record(p)
        \/ Quiet(p) /\ api_delete_dns_record(p)
        \/ Quiet(p) /\ api_discard_changes(p)
        \/ Quiet(p) /\ api_apply_changes(p)
        \/ Quiet(p) /\ api_get_changes(p)
        \/ Quiet(p) /\ api_preview_changes(p)
        \/ StageBody(p) \/ discard_changes(p) \/ ReadBody(p) \/ ApplyBody(p)

SeqSpec == Init /\ [][SeqNext]_vars

\* Staging requests only (no apply, no discard), interleaved at every step.
StageNext == \E p \in Procs : StageRequest(p) \/ StageBody(p)

StageSpec == Init /\ [][StageNext]_vars

\* Serialized staging and applying, with discards arriving at any moment: a
\* discard is accepted and runs while another request is in flight.
DiscardNext ==
    \E p \in Procs :
        \/ Quiet(p) /\ StageRequest(p)
        \/ Quiet(p) /\ api_apply_changes(p)
        \/ api_discard_changes(p)
        \/ StageBody(p) \/ discard_changes(p) \/ ApplyBody(p)

DiscardSpec == Init /\ [][DiscardNext]_vars

\* The change log under staging, discarding and reading, interleaved at every
\* step; an apply runs up to the snapshot it takes of a family. The payload of
\* an edit and the zone of a record play no part in the log's rules: one of each.
LogInit == Init /\ dhcp_conf = <<>>

LogNext ==
    \E p \in Procs :
        \/ api_add_dhcp_host(p)
        \/ api_edit_dhcp_host(p) /\ arg'[p].change.ip = None
        \/ api_delete_dhcp_host(p)
        \/ api_add_dns_record(p) /\ arg'[p].change.zone = "lan"
        \/ add_dhcp_host(p)
        \/ edit_dhcp_host(p) \/ edit_filter(p) \/ edit_append(p)
        \/ delete_dhcp_host(p) \/ delete_filter(p) \/ delete_append(p)
        \/ add_dns_record(p)
        \/ api_discard_changes(p) \/ discard_changes(p)
        \/ ReadRequest(p) \/ ReadBody(p)
        \/ api_apply_changes(p) \/ apply_check(p)
        \/ dhcp_open(p) \/ dhcp_snap(p) \/ dns_snap(p)

LogSpec == LogInit /\ [][LogNext]_vars

\* The request threads interleaved at every step, from a configuration without
\* host blocks.
RaceSpec == LogInit /\ [][Next]_vars

\* The DHCP text level: stage, discard, apply on the characters of dhcpd.conf.
DhcpTextInit ==
    /\ ProgramInit
    /\ session = [p \in Procs |-> AdminSession]
    /\ dhcp_conf = <<>>
    /\ conf_text \in InitConfTexts
    /\ zone_text = <<>>
    /\ text_op = NoTextOp

DhcpTextNext == stage_dhcp_text \/ discard_text \/ apply_dhcp_text

DhcpTextSpec == DhcpTextInit /\ [][DhcpTextNext]_vars

\* The DNS text level: stage, discard, apply on the characters of a zone file.
DnsTextInit ==
    /\ ProgramInit
    /\ session = [p \in Procs |-> AdminSession]
    /\ dhcp_conf = <<>>
    /\ conf_text = <<>>
    /\ zone_text \in InitZoneTexts
    /\ text_op = NoTextOp

DnsTextNext == stage_dns_text \/ discard_text \/ apply_dns_text

DnsTextSpec == DnsTextInit /\ [][DnsTextNext]_vars

\* ------------------------------------ the clock and the serial (414-444, 520-522)

Instant(date, hour) == [date |-> date, hour |-> hour]

\* The moments datetime.now() is read at: the first hours of a day, its
\* afternoon, its last hour, and the first hours of the next day.
Instants ==
    <<Instant(20261105, 0), Instant(20261105, 1), Instant(20261105, 14),
      Instant(20261105, 23), Instant(20261106, 0), Instant(20261106, 1)>>

\* datetime.now().strftime('%Y%m%d01')
CreationSerial(t) == t.date * 100 + 1

\* datetime.now().strftime('%Y%m%d%H')
ApplySerial(t) == t.date * 100 + t.hour

RECURSIVE NumberOf(_)
\* The number a sequence of digits writes.
NumberOf(digits) ==
    IF digits = <<>> THEN 0
    ELSE 10 * NumberOf(SubSeq(digits, 1, Len(digits) - 1))
            + (CHOOSE d \in 0..9 : DigitChars[d + 1] = digits[Len(digits)])

\* The serial number a zone file carries.
ZoneSerial(text) == NumberOf(SerialTokens(text)[1])

\* Time passes.
tick ==
    /\ clock < Len(Instants)
    /\ clock' = clock + 1
    /\ UNCHANGED <<pending_dhcp, pending_dns, program_vars, text_vars, session, spawned,
                   scan_in_progress, scan_pc>>

\* Route POST /api/dns/zone with its fields filled in, and create_zone_file
\* with a successful copy: the zone file is written with today's first serial,
\* whether or not the zone has a file already.
api_create_zone ==
    /\ login_required(1)
    /\ sudo_required(1)
    /\ zone_text' = ZoneFileText(CreationSerial(Instants[clock]))
    /\ UNCHANGED <<pending_dhcp, pending_dns, program_vars, conf_text, text_op, side_vars>>

\* apply_dns_changes at the moment of the clock, with a successful copy, for the
\* one zone of the log: the file read, the changes folded in log order, the
\* serial rewritten from the clock, the family cleared.
apply_dns_now ==
    /\ pending_dns # <<>>
    /\ zone_text # <<>>
    /\ zone_text' = UpdateSerial(FoldDnsText(zone_text, ZoneChanges(pending_dns, "example.com")),
                                 ApplySerial(Instants[clock]))
    /\ pending_dns' = <<>>
    /\ UNCHANGED <<pending_dhcp, program_vars, conf_text, text_op, side_vars>>

\* Zone creation, staging of records of one name and one value (the serial is
\* rewritten whatever the records are), applies and the clock. A zone file is
\* applied to until it holds MaxLog added lines or more.
ClockNext ==
    \/ tick
    \/ api_create_zone
    \/ /\ stage_dns_text
       /\ LET c == pending_dns'[Len(pending_dns')] IN c.name = web /\ c.value \in {ip_9, NoText}
    \/ discard_text
    \/ /\ Len(zone_text) < Len(ZoneFileText(0)) + MaxLog * Len(DnsRecordLine(web, <<"A">>, ip_9))
       /\ apply_dns_now

ClockSpec == Init /\ [][ClockNext]_vars

\* ------------------------------------------- the scanner (602-674, 989-996)

\* Everything scan_network and its callers leave alone.
not_scan_vars == <<pending_dhcp, pending_dns, program_vars, text_vars, session, spawned, clock>>

\* Where a thread is once scan_network has returned: background_scanner sleeps
\* until the next round, a thread of POST /api/scan/start ends.
AfterScan(t) == IF t = "scanner" THEN "sleep" ELSE "done"

\* start_background_scanner and background_scanner: the initial scan on startup.
background_scanner(t) ==
    /\ t = "scanner"
    /\ scan_pc[t] = "idle"
    /\ scan_pc' = [scan_pc EXCEPT ![t] = "guard"]
    /\ UNCHANGED <<scan_in_progress, not_scan_vars>>

\* background_scanner: scan_interval seconds have passed, scan_network is called.
scanner_wake(t) ==
    /\ scan_pc[t] = "sleep"
    /\ scan_pc' = [scan_pc EXCEPT ![t] = "guard"]
    /\ UNCHANGED <<scan_in_progress, not_scan_vars>>

\* Route POST /api/scan/start from a logged-in session: 'started' with a new
\* thread on scan_network when the flag is down, 'already_running' otherwise.
api_start_scan(t) ==
    /\ t # "scanner"
    /\ scan_pc[t] = "idle"
    /\ scan_pc' = [scan_pc EXCEPT ![t] = IF ~scan_in_progress THEN "guard" ELSE "already_running"]
    /\ UNCHANGED <<scan_in_progress, not_scan_vars>>

\* scan_network: if scan_in_progress: return
scan_guard(t) ==
    /\ scan_pc[t] = "guard"
    /\ scan_pc' = [scan_pc EXCEPT ![t] = IF scan_in_progress THEN AfterScan(t) ELSE "set"]
    /\ UNCHANGED <<scan_in_progress, not_scan_vars>>

\* scan_network: scan_in_progress = True
scan_set(t) ==
    /\ scan_pc[t] = "set"
    /\ scan_in_progress' = TRUE
    /\ scan_pc' = [scan_pc EXCEPT ![t] = "sweep"]
    /\ UNCHANGED not_scan_vars

\* scan_network, lines 610-637: the network parsed, a ping worker started for
\* each host and joined; every worker returns (ping_host has a timeout and
\* catches every exception).
scan_sweep(t) ==
    /\ scan_pc[t] = "sweep"
    /\ scan_pc' = [scan_pc EXCEPT ![t] = "publish"]
    /\ UNCHANGED <<scan_in_progress, not_scan_vars>>

\* scan_network, lines 610-637: ip_network rejects CONFIG['network'] (taken from
\* the environment as it is) or a worker thread cannot be started; the exception
\* leaves scan_network and ends the thread.
scan_raise(t) ==
    /\ scan_pc[t] = "sweep"
    /\ scan_pc' = [scan_pc EXCEPT ![t] = "raised"]
    /\ UNCHANGED <<scan_in_progress, not_scan_vars>>

\* scan_network, lines 639-656: the results published, scan_in_progress = False.
scan_reset(t) ==
    /\ scan_pc[t] = "publish"
    /\ scan_in_progress' = FALSE
    /\ scan_pc' = [scan_pc EXCEPT ![t] = AfterScan(t)]
    /\ UNCHANGED not_scan_vars

\* A step of a thread inside scan_network.
scan_network(t) == scan_guard(t) \/ scan_set(t) \/ scan_sweep(t) \/ scan_raise(t) \/ scan_reset(t)

ScanNext ==
    \E t \in ScanThreads :
        \/ background_scanner(t) \/ scanner_wake(t) \/ api_start_scan(t)
        \/ scan_guard(t) \/ scan_set(t) \/ scan_sweep(t) \/ scan_raise(t) \/ scan_reset(t)

\* The scanner and the scan-start requests, interleaved at every step.
ScanSpec == LogInit /\ [][ScanNext]_vars

\* Every thread that can take a step eventually takes one: the background
\* scanner is started with the program and wakes up after each interval, and a
\* started thread runs.
ScanFairSpec ==
    /\ LogInit
    /\ [][ScanNext]_vars
    /\ \A t \in ScanThreads :
          WF_vars(background_scanner(t) \/ scanner_wake(t) \/ scan_network(t))

\* ------------------------------------------------- run_with_sudo (121-136)

\* Most calls of run_with_sudo a run makes.
MaxSpawned == 2

\* The command vectors the program hands to run_with_sudo (lines 289, 294, 799).
SudoCommands ==
    { <<"cp", "/tmp/dhcpd.conf.tmp", "/etc/dhcp/dhcpd.conf">>,
      <<"systemctl", "reload", "isc-dhcp-server">>,
      <<"echo", "ok">> }

\* Mutant of Child: the password handed to sudo as an argument.
ChildWithPasswordArgument(command, password) ==
    [argv |-> <<"sudo", "-p", password>> \o command, stdin |-> <<>>]

\* subprocess.Popen(['sudo', '-S'] + command, stdin=PIPE, ...) and
\* proc.communicate(input=(password + '\n').encode()): the child process, its
\* argument vector and what is written to its standard input.
Child(command, password) ==
    [argv |-> <<"sudo", "-S">> \o command, stdin |-> <<<<password, "\n">>>>]

\* password = session.get('sudo_password', '') when the caller passes none.
PasswordOf(p, password) ==
    IF password # None THEN password
    ELSE IF session[p].sudo_password # NoCredential THEN session[p].sudo_password
    ELSE ""

\* run_with_sudo called in request p with a command and a password (None: the
\* session's): the child process is started and written to, its result
\* returned; 'password' is a local of the call. (When Popen raises no child
\* exists and the call returns failure.)
run_with_sudo(p) ==
    /\ Len(spawned) < MaxSpawned
    /\ \E command \in SudoCommands, password \in Credentials \cup {None} :
          spawned' = Append(spawned,
                            [command |-> command, password |-> PasswordOf(p, password),
                             child |-> Child(command, PasswordOf(p, password))])
    /\ UNCHANGED <<pending_dhcp, pending_dns, program_vars, text_vars, session, clock,
                   scan_in_progress, scan_pc>>

\* Requests come from sessions of every kind.
SudoInit ==
    /\ ProgramInit
    /\ dhcp_conf = <<>>
    /\ session \in [Procs -> Sessions]
    /\ conf_text = <<>>
    /\ zone_text = <<>>
    /\ text_op = NoTextOp

SudoNext == \E p \in Procs : run_with_sudo(p)

SudoSpec == SudoInit /\ [][SudoNext]_vars

\* --------------------------------- requests the decorators reject (101-119)

\* The routes under @login_required that stage, discard, read or apply.
ProtectedRoutes ==
    {"add_dhcp", "edit_dhcp", "delete_dhcp", "add_dns", "edit_dns", "delete_dns",
     "discard", "get_changes", "preview", "apply"}

\* The answer of a decorator: jsonify({'error': ...}), status.
Rejected(route, status) == [route |-> route, status |-> status]

\* @login_required of any protected route, 'user' not in session: the route
\* function is not called; 401 {'error': 'Unauthorized'}.
login_rejected(p) ==
    /\ NextRequest(p)
    /\ ~login_required(p)
    /\ \E route \in ProtectedRoutes :
          observed' = [observed EXCEPT ![p] = Rejected(route, 401)]
    /\ pc' = [pc EXCEPT ![p] = "done"]
    /\ UNCHANGED <<shared, arg, apply_locals, service_conf, text_vars, side_vars>>

\* @sudo_required of POST /api/changes/apply, 'sudo_password' not in session:
\* api_apply_changes is not called; 403 {'error': 'Sudo password required'}.
sudo_rejected(p) ==
    /\ NextRequest(p)
    /\ login_required(p)
    /\ ~sudo_required(p)
    /\ observed' = [observed EXCEPT ![p] = Rejected("apply", 403)]
    /\ pc' = [pc EXCEPT ![p] = "done"]
    /\ UNCHANGED <<shared, arg, apply_locals, service_conf, text_vars, side_vars>>

\* The sessions requests come with: no user, a user, a user with the sudo password.
RequestSessions == {Session(FALSE, NoCredential), Session(TRUE, NoCredential), AdminSession}

AuthInit ==
    /\ ProgramInit
    /\ dhcp_conf = <<>>
    /\ session \in [Procs -> RequestSessions]
    /\ conf_text = <<>>
    /\ zone_text = <<>>
    /\ text_op = NoTextOp

\* Serialized requests from sessions of every kind. The decorators do not look
\* at the request's fields: one host, one payload and one zone.
AuthNext ==
    \E p \in Procs :
        \/ Quiet(p) /\ login_rejected(p)
        \/ Quiet(p) /\ sudo_rejected(p)
        \/ Quiet(p) /\ api_add_dhcp_host(p) /\ arg'[p].change.hostname = "nas"
        \/ Quiet(p) /\ api_edit_dhcp_host(p) /\ arg'[p].change.hostname = "nas"
                    /\ arg'[p].change.ip = None
        \/ Quiet(p) /\ api_delete_dhcp_host(p) /\ arg'[p].change.hostname = "nas"
        \/ Quiet(p) /\ api_add_dns_record(p) /\ arg'[p].change.zone = "lan"
        \/ Quiet(p) /\ api_edit_dns_record(p) /\ arg'[p].change.zone = "lan"
        \/ Quiet(p) /\ api_delete_dns_record(p) /\ arg'[p].change.zone = "lan"
        \/ Quiet(p) /\ api_discard_changes(p)
        \/ Quiet(p) /\ api_apply_changes(p)
        \/ Quiet(p) /\ api_preview_changes(p)
        \/ StageBody(p) \/ discard_changes(p) \/ preview_changes(p) \/ ApplyBody(p)

AuthSpec == AuthInit /\ [][AuthNext]_vars

\* ---------------------------------------------------------------- claims

AllDone == \A p \in Procs : pc[p] = "done"

HostEntries(log, hostname) == {i \in 1..Len(log) : log[i].hostname = hostname}

\* C1: when edit_dhcp_host(H, ...) or delete_dhcp_host(H) returns, the DHCP log
\* holds exactly one pending change for H, it is the change just staged, and it
\* is the last element of the log.
C1_SupersedeLeavesOne ==
    [][\A p \in Procs :
          (pc[p] \in {"edit_append", "delete_append"} /\ pc'[p] = "done") =>
              /\ pending_dhcp' # <<>>
              /\ pending_dhcp'[Len(pending_dhcp')] = arg[p].change
              /\ arg[p].change.action \in {"edit", "delete"}
              /\ HostEntries(pending_dhcp', arg[p].change.hostname) = {Len(pending_dhcp')}]_vars

\* An add for H was staged and returned, then an edit or delete for H: only the
\* latter is pending for H, after the other host's entry.
C1_Witness ==
    \E p, q \in Procs :
        /\ pc[p] = "done" /\ pc[q] = "done" /\ AllDone
        /\ arg[p].op = "add_dhcp"
        /\ arg[q].op \in {"edit_dhcp", "delete_dhcp"}
        /\ arg[p].change.hostname = arg[q].change.hostname
        /\ Len(pending_dhcp) = 2
        /\ pending_dhcp[2] = arg[q].change
        /\ pending_dhcp[1].hostname # arg[q].change.hostname

\* C2: add_dhcp_host evicts nothing: the DHCP log after the call is the log
\* before it with one 'add' entry appended, and the DNS log is unchanged.
C2_AddAppendsOnly ==
    [][\A p \in Procs :
          (pc[p] = "add_dhcp_host" /\ pc'[p] = "done") =>
              /\ Len(pending_dhcp') = Len(pending_dhcp) + 1
              /\ SubSeq(pending_dhcp', 1, Len(pending_dhcp)) = pending_dhcp
              /\ pending_dhcp'[Len(pending_dhcp')] =
                     DhcpChange("add", arg[p].change.hostname, arg[p].change.mac,
                                arg[p].change.ip)
              /\ pending_dns' = pending_dns]_vars

\* An add for H returned while an earlier edit or delete for H is still pending
\* before it.
C2_Witness ==
    \E p \in Procs :
        /\ pc[p] = "done" /\ arg[p].op = "add_dhcp"
        /\ Len(pending_dhcp) >= 2
        /\ pending_dhcp[Len(pending_dhcp)] = arg[p].change
        /\ \E i \in 1..(Len(pending_dhcp) - 1) :
              /\ pending_dhcp[i].hostname = arg[p].change.hostname
              /\ pending_dhcp[i].action \in {"edit", "delete"}

\* C3: staging a DNS change never evicts: the DNS log after the call is the log
\* before it with the change appended, whatever is already pending for the
\* same zone, name and type, and the DHCP log is unchanged.
C3_DnsAppendsOnly ==
    [][\A p \in Procs :
          (pc[p] \in {"add_dns_record", "edit_dns_record", "delete_dns_record"}
             /\ pc'[p] = "done") =>
              /\ Len(pending_dns') = Len(pending_dns) + 1
              /\ \A i \in 1..Len(pending_dns) : pending_dns'[i] = pending_dns[i]
              /\ pending_dns'[Len(pending_dns')] = arg[p].change
              /\ pending_dhcp' = pending_dhcp]_vars

\* Three changes of the same record of one zone are pending together, the last
\* of them an edit or a delete.
C3_Witness ==
    /\ AllDone
    /\ Len(pending_dns) = 3
    /\ \A i \in 1..3 : /\ pending_dns[i].zone = pending_dns[1].zone
                       /\ pending_dns[i].name = pending_dns[1].name
                       /\ pending_dns[i].type = pending_dns[1].type
    /\ pending_dns[1].action = "add"
    /\ pending_dns[3].action \in {"edit", "delete"}

\* The staging rules of the change log, applied to <<DHCP log, DNS log>> by one
\* call running alone.
StageAlone(logs, call) ==
    CASE call.op = "add_dhcp" -> <<Append(logs[1], call.change), logs[2]>>
      [] call.op \in {"edit_dhcp", "delete_dhcp"} ->
            <<Append(SelectSeq(logs[1], LAMBDA c : c.hostname # call.change.hostname),
                     call.change), logs[2]>>
      [] call.op \in {"add_dns", "edit_dns", "delete_dns"} ->
            <<logs[1], Append(logs[2], call.change)>>

RECURSIVE Orders(_)
Orders(S) ==
    IF S = {} THEN {<<>>}
    ELSE UNION {{<<x>> \o t : t \in Orders(S \ {x})} : x \in S}

RECURSIVE StageInOrder(_, _)
StageInOrder(logs, order) ==
    IF order = <<>> THEN logs
    ELSE StageInOrder(StageAlone(logs, arg[Head(order)]), Tail(order))

Returned == {p \in Procs : pc[p] = "done"}

\* C4: concurrent staging calls lose no update: once the calls have returned,
\* the log is the one some sequential order of those calls produces from the
\* empty log (N entries less those superseded by a DHCP edit or delete).
C4_NoLostUpdate ==
    (\A p \in Procs : pc[p] \in {"idle", "done"}) =>
        \E order \in Orders(Returned) :
            StageInOrder(<<<<>>, <<>>>>, order) = <<pending_dhcp, pending_dns>>

\* All the calls have returned, a DHCP edit or delete among them superseded an
\* earlier change, and a DNS change was staged as well.
C4_Witness ==
    /\ AllDone
    /\ Len(pending_dhcp) = 1
    /\ Len(pending_dns) = 1
    /\ pending_dhcp[1].action \in {"edit", "delete"}

\* C5: a change staged while an apply of its family is in flight is not lost:
\* every pending change the apply's clearing step removes from the log was in
\* the snapshot the apply folded into the text it wrote.
C5_StagedDuringApplyKept ==
    [][\A p \in Procs :
          /\ (pc[p] = "dhcp_clear" /\ pc'[p] = "dhcp_return") =>
                \A i \in 1..Len(pending_dhcp) :
                    \/ pending_dhcp[i] \in Range(changes[p])
                    \/ pending_dhcp[i] \in Range(pending_dhcp')
          /\ (pc[p] = "dns_clear" /\ pc'[p] = "dns_return") =>
                \A i \in 1..Len(pending_dns) :
                    \/ pending_dns[i] \in Range(changes[p])
                    \/ pending_dns[i] \in Range(pending_dns')]_vars

\* C6: apply_dhcp_changes clears the DHCP family if and only if the privileged
\* copy succeeded: after a failed copy the DHCP log is the log before the call
\* and failure is reported, after a successful copy the DHCP log is empty; the
\* DNS family is as it was before the call.
C6_DhcpClearedIffCopied ==
    \A p \in Procs :
        pc[p] = "dhcp_return" =>
            /\ success[p] => (pending_dhcp = <<>> /\ ret_dhcp[p] = "ok")
            /\ ~success[p] => (pending_dhcp = at_call[p].dhcp /\ ret_dhcp[p] = "failed")
            /\ (pending_dhcp = <<>>) <=> success[p]
            /\ pending_dns = at_call[p].dns

\* The copy was issued and failed, and the pending changes are all still there.
C6_Witness ==
    \E p \in Procs :
        /\ pc[p] = "dhcp_return"
        /\ "cp_dhcp" \in sudo_cmds[p]
        /\ ~success[p]
        /\ Len(pending_dhcp) = 2
        /\ pending_dhcp = at_call[p].dhcp

\* C7: apply_dns_changes clears the whole DNS family exactly when some zone of
\* the pass reached status 'ok' (changes of failed zones included); when no
\* zone succeeded the DNS log is left as it was.
C7_DnsClearedIffAnyOk ==
    \A p \in Procs :
        pc[p] = "dns_return" =>
            IF AnyOk(results[p])
            THEN pending_dns = <<>>
            ELSE pending_dns = at_call[p].dns

\* A pass with one zone 'ok' and one zone 'failed' has returned: the log is empty.
C7_Witness ==
    \E p \in Procs :
        /\ pc[p] = "dns_return"
        /\ Len(results[p]) = 2
        /\ results[p][1].status = "failed"
        /\ results[p][2].status = "ok"
        /\ pending_dns = <<>>

StatusOf(res, zone) ==
    IF \E i \in 1..Len(res) : res[i].zone = zone /\ res[i].status = "ok"
    THEN "ok" ELSE "failed"

\* C8: after an apply_dns_changes pass, every pending change of a failed zone is
\* still in the DNS log and every pending change of a succeeded zone is gone.
C8_FailedZonesRetained ==
    \A p \in Procs :
        pc[p] = "dns_return" =>
            \A i \in 1..Len(at_call[p].dns) :
                LET c == at_call[p].dns[i]
                IN  IF StatusOf(results[p], c.zone) = "ok"
                    THEN c \notin Range(pending_dns)
                    ELSE c \in Range(pending_dns)

DhcpAfterSnap == {"dhcp_write", "dhcp_cp", "dhcp_rm", "dhcp_reload", "dhcp_clear"}
DnsAfterSnap == {"zone_open", "zone_write", "zone_cp", "zone_rm", "zone_chown",
                 "dns_reload", "dns_clear", "dns_return"}

\* C9: applying an empty change log is a no-op: an apply whose snapshot of the
\* family's log is empty issues no privileged command for that family and
\* leaves the family's text as it was.
C9_EmptyApplyIsNoOp ==
    \A p \in Procs :
        /\ (pc[p] \in DhcpAfterSnap /\ changes[p] = <<>>) =>
              /\ sudo_cmds[p] \cap {"cp_dhcp", "reload_dhcp"} = {}
              /\ dhcp_conf = at_call[p].conf
        /\ (pc[p] \in DnsAfterSnap /\ changes[p] = <<>>) =>
              /\ sudo_cmds[p] \cap {"cp_zone", "chown_zone", "reload_bind"} = {}
              /\ zone_files = at_call[p].zones

\* C10: whenever apply_dhcp_changes returns failure (unreadable config, temp
\* file error, failed copy), the live DHCP text is the text before the call and
\* the DHCP log holds the changes it held before the call.
C10_FailureAppliesNothing ==
    \A p \in Procs :
        (pc[p] = "dhcp_return" /\ ret_dhcp[p] = "failed") =>
            /\ dhcp_conf = at_call[p].conf
            /\ pending_dhcp = at_call[p].dhcp

\* The copy of a text that differs from the live one failed: the call has
\* returned failure and the live text is still the old one.
C10_Witness ==
    \E p \in Procs :
        /\ pc[p] = "dhcp_return"
        /\ ret_dhcp[p] = "failed"
        /\ "cp_dhcp" \in sudo_cmds[p]
        /\ content[p] # original_content[p]
        /\ dhcp_conf = original_content[p]

\* The A records of a name in the rendered view of a zone text.
ARecords(text, name) ==
    SelectSeq(parse_zone_records(text), LAMBDA r : r.type = <<"A">> /\ r.name = name)

\* The first k changes of a log applied to a zone text, one after the other.
RECURSIVE AfterFirst(_, _, _)
AfterFirst(k, chs, text) ==
    IF k = 0 THEN text ELSE ApplyDnsChangeText(AfterFirst(k - 1, chs, text), chs[k])

Deleted(chs) == {chs[i].hostname : i \in {j \in 1..Len(chs) : chs[j].action = "delete"}}

\* C12: applying staged deletes removes the host blocks named in them and no
\* other host's block: re-reading the applied text yields the HostRecords read
\* before less those named, also when the name is a prefix or a suffix of
\* another host's name.
C12_DeleteRemovesOnlyNamed ==
    (/\ text_op.family = "dhcp"
     /\ \A i \in 1..Len(text_op.changes) : text_op.changes[i].action = "delete")
    => parse_dhcp_config(conf_text) =
           SelectSeq(parse_dhcp_config(text_op.before),
                     LAMBDA r : r.name \notin Deleted(text_op.changes))

\* delete(nas) was applied to a file with the blocks mynas, nas and nas2: the
\* blocks mynas and nas2 are read back.
C12_Witness ==
    /\ text_op.family = "dhcp"
    /\ text_op.changes = <<DhcpChange("delete", nas, NoText, NoText)>>
    /\ Len(parse_dhcp_config(text_op.before)) = 3
    /\ parse_dhcp_config(conf_text) =
           <<HostRecord(mynas, mac_aa, ip_5), HostRecord(nas2, mac_aa, ip_5)>>

\* The HostRecords of a name in the rendered view of a dhcpd.conf text.
HostsNamed(text, name) == SelectSeq(parse_dhcp_config(text), LAMBDA r : r.name = name)

\* C13: applying a DHCP edit for an existing host changes only the fields of
\* the payload: the host is read back with the payload's MAC or else the MAC
\* it had, and with the payload's IP or else the address it had.
C13_EditKeepsOtherFields ==
    (/\ text_op.family = "dhcp"
     /\ Len(text_op.changes) = 1
     /\ text_op.changes[1].action = "edit"
     /\ HostsNamed(text_op.before, text_op.changes[1].hostname) # <<>>)
    => LET c == text_op.changes[1]
           old == HostsNamed(text_op.before, c.hostname)[1]
       IN  HostsNamed(conf_text, c.hostname) =
               <<HostRecord(c.hostname,
                            IF c.mac # NoText THEN c.mac ELSE old.mac,
                            IF c.ip # NoText THEN c.ip ELSE old.address)>>

\* C14: the rendered view of the DHCP configuration has at most one HostRecord
\* per name, in every state reached by stage, discard and successful apply
\* operations from a configuration with unique host names.
C14_UniqueHostNames ==
    LET hosts == parse_dhcp_config(conf_text)
    IN  \A i, j \in 1..Len(hosts) : hosts[i].name = hosts[j].name => i = j

\* The records of one type in the rendered view of a zone text, in file order.
RecordsTyped(text, type) == SelectSeq(parse_zone_records(text), LAMBDA r : r.type = type)

ParsedTypes == {<<"A">>, <<"A", "A", "A", "A">>, <<"C", "N", "A", "M", "E">>, <<"N", "S">>}

\* The zone read back after one add: the records read before, and the new
\* record after the last record of its type.
AddedOneRecord(before, after, c) ==
    \A type \in ParsedTypes :
        RecordsTyped(after, type) =
            IF type = c.type
            THEN Append(RecordsTyped(before, type), ZoneRecord(c.name, c.type, c.value))
            ELSE RecordsTyped(before, type)

\* C15: applying a staged add(name, type, value) appends one record line with
\* that name, type and value, leaves the records the zone had unchanged, and
\* replaces the zone's serial token by a ten-digit value different from the
\* serial before the apply.
C15_AddAppendsLineNewSerial ==
    (/\ text_op.family = "dns"
     /\ Len(text_op.changes) = 1
     /\ text_op.changes[1].action = "add")
    => /\ AddedOneRecord(text_op.before, zone_text, text_op.changes[1])
       /\ Len(SerialTokens(zone_text)) = 1
       /\ SerialTokens(zone_text) # SerialTokens(text_op.before)

\* The zones of a result list, in the order of the list.
ZonesOf(res) == [i \in 1..Len(res) |-> res[i].zone]

\* The zone's file holds the text it had at the entry of the pass with the
\* zone's changes of the snapshot applied in order and the serial of the pass.
Transformed(p, zone) ==
    \E serial \in NowSerials :
        zone_files[zone] =
            ZoneText(serial, FoldDns(at_call[p].zones[zone].lines,
                                     ZoneChanges(at_call[p].dns, zone)))

\* C16: the result list of apply_dns_changes has exactly one entry for every
\* distinct zone of the snapshot of the DNS log, and every zone reported 'ok'
\* has been transformed and written, whatever happened to the other zones of
\* the pass.
C16_ZoneFailuresIndependent ==
    \A p \in Procs :
        pc[p] = "dns_return" =>
            /\ ZonesOf(results[p]) = ZonesToUpdate(at_call[p].dns)
            /\ \A i \in 1..Len(results[p]) :
                  results[p][i].status = "ok" => Transformed(p, results[p][i].zone)

\* The first zone of a pass failed; the second one was transformed, written and
\* reported 'ok', and its file differs from the one before the pass.
C16_Witness ==
    \E p \in Procs :
        /\ pc[p] = "dns_return"
        /\ Len(ZonesToUpdate(at_call[p].dns)) = 2
        /\ results[p][1].status = "failed"
        /\ results[p][2].status = "ok"
        /\ zone_files[results[p][1].zone] = at_call[p].zones[results[p][1].zone]
        /\ zone_files[results[p][2].zone] # at_call[p].zones[results[p][2].zone]
        /\ Transformed(p, results[p][2].zone)

\* C17: a reload failure after a successful privileged copy is not rolled back
\* and does not change the outcome: the status returned by apply_dhcp_changes
\* follows the copy alone, and after a successful copy the new text is on disk
\* and the DHCP log is empty whether or not the service reloaded it.
C17_ReloadFailureIgnored ==
    \A p \in Procs :
        pc[p] = "dhcp_return" =>
            /\ ret_dhcp[p] = IF success[p] THEN "ok" ELSE "failed"
            /\ success[p] => /\ dhcp_conf = content[p]
                             /\ pending_dhcp = <<>>

\* The copy succeeded and the reload failed: the call has returned success, the
\* log is empty, and the file holds a text the service has not loaded.
C17_Witness ==
    \E p \in Procs :
        /\ pc[p] = "dhcp_return"
        /\ success[p]
        /\ ret_dhcp[p] = "ok"
        /\ "reload_dhcp" \in sudo_cmds[p]
        /\ dhcp_conf # at_call[p].conf
        /\ service_conf = at_call[p].conf
        /\ pending_dhcp = <<>>

\* The rules of the change log for one call running alone: staging, the
\* discard, and the routes that only read.
LogAlone(logs, call) ==
    CASE call.op = "discard" -> <<<<>>, <<>>>>
      [] call.op \in {"get_changes", "preview", "apply"} -> logs
      [] OTHER -> StageAlone(logs, call)

RECURSIVE LogInOrder(_, _)
LogInOrder(logs, order) ==
    IF order = <<>> THEN logs
    ELSE LogInOrder(LogAlone(logs, arg[Head(order)]), Tail(order))

\* The logs some sequential order of the returned calls leaves.
SequentialLogs == {LogInOrder(<<<<>>, <<>>>>, order) : order \in Orders(Returned)}

Replaying == <<changes, todo, content, original_content>>

\* C19: discard clears both families unconditionally: when the discard
\* returns, the DHCP log and the DNS log are empty whatever they held, and the
\* snapshot an apply in flight is replaying is left as it was.
C19_DiscardClearsBoth ==
    [][\A p \in Procs :
          (pc[p] = "discard_changes" /\ pc'[p] = "done") =>
              /\ pending_dhcp' = <<>>
              /\ pending_dns' = <<>>
              /\ Replaying' = Replaying]_vars

\* A discard has returned while an apply was between its snapshot and its
\* copy: the log is empty, the apply still holds the changes it copied and
\* has written the text they produce.
C19_Witness ==
    \E p, q \in Procs :
        /\ pc[q] = "done" /\ arg[q].op = "discard"
        /\ pc[p] = "dhcp_cp"
        /\ changes[p] # <<>>
        /\ pending_dhcp = <<>>
        /\ tmp["dhcpd.conf"] = File(FoldDhcp(original_content[p], changes[p]))
        /\ FoldDhcp(original_content[p], changes[p]) # original_content[p]

StageOps == {"add_dhcp", "edit_dhcp", "delete_dhcp", "add_dns", "edit_dns", "delete_dns"}

\* Thread p takes the step.
Steps(p) == pc'[p] # pc[p]

\* The persistent state: the configuration, the zone files, and what the
\* service has loaded.
Persistent == <<dhcp_conf, zone_files, service_conf>>

\* C20: staging never touches persistent state: every step of a stage
\* operation, of discard and of preview leaves the DHCP configuration and every
\* zone file unchanged and issues no privileged command; the configuration text
\* changes only in the copy step of an apply.
C20_StagingLeavesFiles ==
    [][\A p \in Procs :
          /\ (Steps(p) /\ arg'[p].op \in StageOps \cup {"discard", "preview", "get_changes"}) =>
                /\ Persistent' = Persistent
                /\ tmp' = tmp
                /\ sudo_cmds' = sudo_cmds
                /\ sudo_cmds[p] = {}
          /\ (Steps(p) /\ dhcp_conf' # dhcp_conf) =>
                /\ arg[p].op = "apply"
                /\ pc[p] = "dhcp_cp"]_vars

\* An edit of a host of the configuration is staged and a preview has shown it:
\* the configuration is the one before, although the change would alter it.
C20_Witness ==
    \E p, q \in Procs :
        /\ pc[p] = "done" /\ arg[p].op = "edit_dhcp"
        /\ pc[q] = "done" /\ arg[q].op = "preview"
        /\ observed[q] = PreviewResponse(<<arg[p].change>>, <<>>)
        /\ pending_dhcp = <<arg[p].change>>
        /\ HasBlock(dhcp_conf, arg[p].change.hostname)
        /\ FoldDhcp(dhcp_conf, pending_dhcp) # dhcp_conf
        /\ \A r \in Procs : sudo_cmds[r] = {}

\* The records read from a zone text once the (name, type) pair of a change is
\* deleted, or edited to the change's value.
PairChanged(records, c) ==
    IF c.action = "delete"
    THEN SelectSeq(records, LAMBDA r : ~(r.name = c.name /\ r.type = c.type))
    ELSE [i \in 1..Len(records) |->
            IF records[i].name = c.name /\ records[i].type = c.type
            THEN ZoneRecord(c.name, c.type, c.value)
            ELSE records[i]]

\* C23: DNS edit and delete act on the (name, type) pair only: after applying
\* one delete or edit of (name, T), the zone read back holds the records read
\* before with those of that name and that type removed (or given the new
\* value), and every record of another type or another name as it was.
C23_DnsPairIdentity ==
    (/\ text_op.family = "dns"
     /\ Len(text_op.changes) = 1
     /\ text_op.changes[1].action \in {"delete", "edit"})
    => parse_zone_records(zone_text) =
           PairChanged(parse_zone_records(text_op.before), text_op.changes[1])

\* The HostRecords of every other name in the rendered view of a text.
HostsNotNamed(text, name) == SelectSeq(parse_dhcp_config(text), LAMBDA r : r.name # name)

\* C25: round trip of a DHCP add: for a hostname without a host block in the
\* text, applying add(H, mac, ip) and reading the text back yields exactly one
\* HostRecord named H, with that mac and that ip, and every HostRecord read
\* before the apply with its fields unchanged.
C25_AddRoundTrip ==
    (/\ text_op.family = "dhcp"
     /\ Len(text_op.changes) = 1
     /\ text_op.changes[1].action = "add"
     /\ HostsNamed(text_op.before, text_op.changes[1].hostname) = <<>>)
    => LET c == text_op.changes[1]
       IN  /\ HostsNamed(conf_text, c.hostname) = <<HostRecord(c.hostname, c.mac, c.ip)>>
           /\ HostsNotNamed(conf_text, c.hostname) = parse_dhcp_config(text_op.before)

\* Every change of the log is an edit or a delete of a host without a block in
\* the text.
OnlyMissingHosts(chs, text) ==
    /\ \A i \in 1..Len(chs) : chs[i].action \in {"edit", "delete"}
    /\ LET hosts == parse_dhcp_config(text)
       IN  \A i \in 1..Len(chs), k \in 1..Len(hosts) : hosts[k].name # chs[i].hostname

\* C27: applying DHCP edits or deletes of hosts that have no block in the text
\* leaves the text as it was (no block created, none altered); the apply still
\* performs the privileged copy and, the copy succeeding, returns success and
\* removes the changes from the log.
C27_MissingHostLeavesText ==
    (text_op.family = "dhcp" /\ OnlyMissingHosts(text_op.changes, text_op.before))
    => /\ conf_text = text_op.before
       /\ "cp_dhcp" \in sudo_cmds[1]
       /\ ret_dhcp[1] = "ok"
       /\ pending_dhcp = <<>>

\* An edit of nas was applied to a file that holds blocks for mynas and nas2
\* only: the file is as it was, the copy was made, the log is empty.
C27_Witness ==
    /\ text_op.family = "dhcp"
    /\ \E i \in 1..Len(text_op.changes) :
          text_op.changes[i] = DhcpChange("edit", nas, mac_11, ip_7)
    /\ OnlyMissingHosts(text_op.changes, text_op.before)
    /\ HostsNamed(text_op.before, mynas) # <<>>
    /\ HostsNamed(text_op.before, nas2) # <<>>
    /\ conf_text = text_op.before
    /\ "cp_dhcp" \in sudo_cmds[1]
    /\ pending_dhcp = <<>>

\* The host blocks of a name in the configuration.
BlocksOf(text, hostname) == {i \in 1..Len(text) : text[i].name = hostname}

\* The add requests received for a name.
AddsOf(hostname) ==
    {p \in Procs : arg[p].op = "add_dhcp" /\ arg[p].change.hostname = hostname}

\* C24: no staged change is applied to the configuration text more than once
\* under any interleaving of apply requests: starting without host blocks, the
\* configuration never holds more blocks for H than adds were staged for H.
C24_AppliedAtMostOnce ==
    \A h \in Hostnames : Cardinality(BlocksOf(dhcp_conf, h)) <= Cardinality(AddsOf(h))

\* C26: a zone's serial never decreases: every successful DNS apply leaves the
\* zone file with a serial at least as large as the one it carried, from the
\* serial of the zone's creation (date and 01) on.
C26_SerialNeverDecreases ==
    [][(pending_dns # <<>> /\ pending_dns' = <<>> /\ zone_text' # zone_text)
          => ZoneSerial(zone_text') >= ZoneSerial(zone_text)]_vars

\* The threads sweeping the network.
Sweeping == {t \in ScanThreads : scan_pc[t] = "sweep"}

\* C28: at most one network scan is in progress at any time: two executions
\* of scan_network never both pass the scan_in_progress guard and sweep the
\* network at the same time.
C28_OneScanAtATime == Cardinality(Sweeping) <= 1

\* C29: every scan that sets scan_in_progress to true eventually resets it to
\* false, on every path out of scan_network, error paths included.
C29_FlagEventuallyReset == scan_in_progress ~> ~scan_in_progress

\* The children of every call so far: the argument vector is the escalation
\* prefix followed by the command and is the same for the same command whatever
\* the password, the password is no argument, and the password is written once,
\* as one line, to the child's standard input.
CredentialOnStdinOnly ==
    \A i \in 1..Len(spawned) :
        LET call == spawned[i]
        IN  /\ call.child.argv = <<"sudo", "-S">> \o call.command
            /\ call.password \notin Range(call.child.argv)
            /\ call.child.stdin = <<<<call.password, "\n">>>>
            /\ \A j \in 1..Len(spawned) :
                   spawned[j].command = call.command
                       => spawned[j].child.argv = call.child.argv

\* A call of the helper starts one child and changes nothing else.
HelperKeepsNothing ==
    spawned' # spawned
        => /\ Len(spawned') = Len(spawned) + 1
           /\ SubSeq(spawned', 1, Len(spawned)) = spawned
           /\ UNCHANGED <<pending_dhcp, pending_dns, program_vars, text_vars, session, clock,
                          scan_in_progress, scan_pc>>

\* C22: the privileged helper never puts the credential on the command line:
\* for a fixed command, runs with different credentials spawn the same argument
\* vector (sudo -S and the command), the credential is delivered once on the
\* child's standard input only, and the helper stores it in no state that
\* outlives the call.
C22_CredentialNeverInArgv == []CredentialOnStdinOnly /\ [][HelperKeepsNothing]_vars

\* Two calls with the same command and different credentials have been made.
C22_Witness ==
    \E i, j \in 1..Len(spawned) :
        /\ spawned[i].command = spawned[j].command
        /\ spawned[i].password \in Credentials
        /\ spawned[j].password \in Credentials
        /\ spawned[i].password # spawned[j].password

\* A request without a logged-in user has not entered a route function, and a
\* request without the sudo password has not entered the apply route: no
\* snapshot of the log, no text read, no privileged command.
NotReached ==
    \A p \in Procs :
        /\ ~session[p].user => pc[p] \in {"idle", "done"} /\ arg[p] = NoArg
        /\ session[p].sudo_password = NoCredential =>
               /\ arg[p].op # "apply"
               /\ changes[p] = <<>> /\ todo[p] = <<>> /\ content[p] = <<>>
               /\ at_call[p] = NoSnapshot
               /\ sudo_cmds[p] = {}

\* A step of a request without a logged-in user leaves the change log and the
\* configuration text as they are and ends the request with 401; a step of a
\* request without the sudo password writes no file.
RejectedStep ==
    \A p \in Procs :
        pc'[p] # pc[p] =>
            /\ ~session[p].user =>
                   /\ UNCHANGED <<pending_dhcp, pending_dns, dhcp_conf, zone_files, tmp,
                                  service_conf, sudo_cmds, text_vars>>
                   /\ \E route \in ProtectedRoutes : observed'[p] = Rejected(route, 401)
            /\ session[p].sudo_password = NoCredential =>
                   UNCHANGED <<dhcp_conf, zone_files, tmp, service_conf, sudo_cmds, text_vars>>

\* C21: unauthenticated calls never reach the core: a request from a session
\* without a logged-in user leaves the change log and the configuration text
\* unchanged for every stage, discard, preview and apply route, and an apply
\* request from a session without the sudo password is rejected before any log
\* snapshot, file write or privileged command.
C21_UnauthenticatedNeverReachCore == []NotReached /\ [][RejectedStep]_vars

\* With a DHCP change staged, an apply request without a user was rejected with
\* 401 and an apply request of a user without the sudo password with 403.
C21_Witness ==
    /\ \E p \in Procs : ~session[p].user /\ observed[p] = Rejected("apply", 401)
    /\ \E p \in Procs : session[p] = Session(TRUE, NoCredential)
                          /\ observed[p] = Rejected("apply", 403)
    /\ pending_dhcp # <<>>

====
